---- MODULE Spec2Model ----
(***************************************************************************)
(* Model of the route-protection middleware of nuxt-directus-module        *)
(* (src/src/runtime/middleware/directus-auth.ts), the session state it     *)
(* reads (src/src/runtime/directus.ts), the redirect cookie, and the       *)
(* operations and role helpers of the composable                           *)
(* (src/src/runtime/composables/useDirectusAuth.ts).                       *)
(*                                                                         *)
(* Strings that are only compared are TLA+ strings.  Paths are compared    *)
(* with startsWith, so a path is a sequence of atoms (pieces of the        *)
(* string): one string starts with another iff its atom sequence has the   *)
(* other's as a prefix.  The empty string is the empty sequence.           *)
(* JavaScript values of the role field are tagged records (see Str, Arr).  *)
(***************************************************************************)
EXTENDS Naturals, Sequences, FiniteSets, TLC

\* ------------------------------------------------------------------ bounds

\* Longest role array a user record carries in the model.
MaxRoleLen == 2
\* Number of guard runs that may be in flight at once (overlapping navigations).
MaxRuns == 2
\* Number of composable operations (login, logout, ...) in flight at once.
MaxOps == 2
\* Number of guard runs and operations together in flight under SessionSpec.
MaxInFlight == 2
\* Longest argument list passed to hasAnyRole, hasAllRoles and isNotRole.
MaxArgLen == 2
\* components that use useDirectusRealtime
MaxComponents == 2
\* calls of client.subscribe that resolve
MaxOpened == 2

\* ------------------------------------------------------- JavaScript values

\* A JavaScript value of the user's role field: undefined, null, a string or
\* an array of strings.  Fields not used by a tag hold a fixed filler.
Undefined == [t |-> "undefined", s |-> "", a |-> <<>>]
Null == [t |-> "null", s |-> "", a |-> <<>>]
Str(x) == [t |-> "string", s |-> x, a |-> <<>>]
Arr(xs) == [t |-> "array", s |-> "", a |-> xs]

\* Role strings found in the backend's user records.
RawRoles == {"admin", "banned", "x"}

SeqsUpTo(S, n) == UNION {[1..k -> S] : k \in 0..n}

RoleValues ==
    {Undefined, Null} \cup {Str(x) : x \in RawRoles}
        \cup {Arr(xs) : xs \in SeqsUpTo(RawRoles, MaxRoleLen)}

\* A user record as the backend returns it, reduced to the configured role
\* field (user[permissions.field]); NoUser is currentUser's null.
Users == [present : {TRUE}, role : RoleValues]
NoUser == [present |-> FALSE, role |-> Undefined]

StartsWithWhole(s, p) == s = p

\* s.startsWith(p)
StartsWith(s, p) == Len(p) <= Len(s) /\ SubSeq(s, 1, Len(p)) = p

\* JavaScript truthiness of a string (a path): the empty string is falsy.
Truthy(p) == Len(p) > 0

\* ----------------------------------------------------------- configuration

loginPath == <<"/auth", "/login">>
registerPath == <<"/auth", "/register">>
afterLoginPath == <<"/">>
afterLogoutPath == <<"/auth", "/login">>

\* auth.permissions.mapping: not configured, or the table
\* { x: "editor", banned: "" }.  An entry whose value is the empty string is
\* falsy in `mapping[role] || role`.
\* `keys` are the table's own keys and `val` its values (val is read at keys only).
NoMapping == [defined |-> FALSE, keys |-> {}, val |-> [r \in RawRoles |-> ""]]
RoleMapping ==
    [defined |-> TRUE, keys |-> {"x", "banned"},
     val |-> [r \in RawRoles |-> IF r = "x" THEN "editor" ELSE ""]]

\* A second table, { x: "editor", admin: "editor" }: two raw values with one
\* name.
MergingMapping ==
    [defined |-> TRUE, keys |-> {"x", "admin"},
     val |-> [r \in RawRoles |-> IF r \in {"x", "admin"} THEN "editor" ELSE ""]]

\* auth.permissions.transform: not configured ("none"), or one of two
\* host-supplied functions: "split" is (v) => v.split(","), which returns an
\* array for a string and raises for anything else; "throws" always raises.
Transforms == {"none", "split", "throws"}

\* One more host-supplied function, for the role helpers' specification:
\* "primary" is (v) => Array.isArray(v) ? v[0] : v, which returns a scalar,
\* and undefined for an empty array.
RoleTransforms == Transforms \cup {"primary"}

\* auth.permissions as the module merges it into the runtime config: disabled
\* with nothing else set, disabled with a mapping and a transform left in
\* place, and enabled.
PermissionsConfigs ==
    [enabled : {FALSE}, mapping : {NoMapping}, transform : {"none"}]
        \cup [enabled : {FALSE}, mapping : {RoleMapping}, transform : {"throws"}]
        \cup [enabled : {TRUE}, mapping : {NoMapping, RoleMapping}, transform : Transforms]

DefaultPermissions == [enabled |-> FALSE, mapping |-> NoMapping, transform |-> "none"]

\* public.directus of the runtime config: the application that sets nothing
\* (enableGlobalMiddleware absent, permissions at the module's default), and
\* the applications that set enableGlobalMiddleware and permissions.
Configs ==
    {[enableGlobalMiddleware |-> "undefined", permissions |-> DefaultPermissions]}
        \cup [enableGlobalMiddleware : {"true", "false"}, permissions : PermissionsConfigs]

\* Line 56: config.public.directus?.enableGlobalMiddleware ?? true
\* (module.ts line 44 sets the same default).
EnableGlobalMiddleware(cfg) ==
    IF cfg.enableGlobalMiddleware = "undefined" THEN TRUE
    ELSE cfg.enableGlobalMiddleware = "true"

\* ------------------------------------------------------------ page metadata

\* to.meta.auth: undefined, false, true or an object.  The object's optional
\* fields: an undeclared path is the empty sequence; roles and excludeRoles
\* record whether they are declared, since an empty array is truthy.
NoList == [declared |-> FALSE, list |-> <<>>]
List(xs) == [declared |-> TRUE, list |-> xs]

AuthObject ==
    [auth |-> "object", unauthenticatedOnly |-> FALSE,
     navigateAuthenticatedTo |-> <<>>, navigateUnauthenticatedTo |-> <<>>,
     roles |-> NoList, excludeRoles |-> NoList, unauthorizedRedirect |-> <<>>]

AuthUndefined == [AuthObject EXCEPT !.auth = "undefined"]
AuthFalse == [AuthObject EXCEPT !.auth = "false"]
AuthTrue == [AuthObject EXCEPT !.auth = "true"]

\* The pages of the application: path and declared meta.
Routes ==
    { [path |-> loginPath,
       meta |-> [AuthObject EXCEPT !.unauthenticatedOnly = TRUE,
                                   !.navigateAuthenticatedTo = <<"/dashboard">>]],
      [path |-> registerPath,
       meta |-> [AuthObject EXCEPT !.unauthenticatedOnly = TRUE]],
      [path |-> loginPath \o <<"/help">>,
       meta |-> [AuthObject EXCEPT !.roles = List(<<"admin">>)]],
      [path |-> <<"/about">>, meta |-> AuthFalse],
      [path |-> <<"/">>, meta |-> AuthUndefined],
      [path |-> <<"/dashboard">>, meta |-> AuthTrue],
      [path |-> registerPath \o <<"/terms">>,
       meta |-> [AuthObject EXCEPT !.excludeRoles = List(<<"banned">>)]],
      [path |-> <<"/welcome">>,
       meta |-> [AuthObject EXCEPT !.unauthenticatedOnly = TRUE,
                                   !.roles = List(<<"admin">>)]],
      [path |-> <<"/landing">>,
       meta |-> [AuthObject EXCEPT !.unauthenticatedOnly = TRUE,
                                   !.navigateAuthenticatedTo = <<"/dashboard">>,
                                   !.excludeRoles = List(<<"banned">>)]],
      [path |-> <<"/members">>,
       meta |-> [AuthObject EXCEPT !.navigateUnauthenticatedTo = <<"/welcome">>]],
      [path |-> <<"/admin">>,
       meta |-> [AuthObject EXCEPT !.roles = List(<<"admin", "editor">>)]],
      [path |-> <<"/admin", "/users">>,
       meta |-> [AuthObject EXCEPT !.roles = List(<<"admin">>),
                                   !.unauthorizedRedirect = <<"/403">>]],
      [path |-> <<"/forum">>,
       meta |-> [AuthObject EXCEPT !.excludeRoles = List(<<"banned">>)]],
      [path |-> <<"/staff">>,
       meta |-> [AuthObject EXCEPT !.roles = List(<<"admin">>),
                                   !.excludeRoles = List(<<"admin">>)]],
      [path |-> <<"/drafts">>,
       meta |-> [AuthObject EXCEPT !.roles = List(<<>>),
                                   !.excludeRoles = List(<<"banned">>),
                                   !.unauthorizedRedirect = <<"/403">>]] }

\* A navigation target: to.path, to.fullPath (path plus query) and to.meta.
Target(route, query) ==
    [path |-> route.path, fullPath |-> route.path \o query, meta |-> route.meta]

Targets ==
    {Target(r, <<>>) : r \in Routes}
        \cup {Target(r, <<"?tab=1">>) : r \in {x \in Routes : x.path = <<"/dashboard">>}}

\* from.path of a navigation.
FromPaths == {loginPath, registerPath, <<"/dashboard">>}

\* -------------------------------------------------------------------- state

VARIABLES
    config,                \* useRuntimeConfig().public.directus, fixed at startup
    isAuthenticatedState,  \* useState("directus-authenticated")
    currentUser,           \* useState("directus-user")
    redirectCookie,        \* useCookie("directus-auth-redirect"), "" when unset
    authCookies,           \* useCookie("directus_refresh_token"), useCookie("directus-data")
    runs,                  \* the guard runs, one record per navigation slot
    ops,                   \* the composable's operations, one record per slot
    pending,               \* calls of checkAuthStatus in flight, in start order
    lastCall,              \* the call of checkAuthStatus that completed last
    view,                  \* what a component last read from the composable
    isLoading,             \* the isLoading ref of the useDirectusAuth instance
    subscriptions,         \* the realtime registry: uid -> handler
    localSubscriptions,    \* per component: the uids its useDirectusRealtime tracks
    listening,             \* what client.subscribe returned and was not unsubscribed
    subscribing,           \* per component: its call of subscribe
    mounted,               \* per component: is it mounted
    opened                 \* how many times client.subscribe has resolved

realtimeVars == <<subscriptions, localSubscriptions, listening, subscribing, mounted, opened>>

vars == <<config, isAuthenticatedState, currentUser, redirectCookie, authCookies, runs,
          ops, pending, lastCall, view, isLoading, realtimeVars>>

CompIds == 1..MaxComponents

\* options.uid and options.collection of the subscribe calls.
Uids == {"chat", "feed"}

Collections == {"messages", "posts"}

\* A value of the registry (part_004 lines 12-17, 67-72).  `sub` names what
\* client.subscribe returned, whose unsubscribe function the handler
\* carries; NoHandler is the absent entry.  `by` is the component whose call
\* created the handler and `holders` the components that received it from
\* subscribe; the code keeps neither.
NoHandler == [sub |-> 0, collection |-> "", persistent |-> FALSE, by |-> 0, holders |-> {}]

\* A component's call of subscribe.  pc: "idle", "awaiting" (suspended in
\* `await client.subscribe`), "returned" (`got` is the sub of the handler it
\* returned), "threw".
IdleSubscribe == [pc |-> "idle", uid |-> "", collection |-> "", persistent |-> FALSE, got |-> 0]

\* Line 20 and line 28: an empty registry, components just mounted.
RealtimeIdle ==
    /\ subscriptions = [u \in Uids |-> NoHandler]
    /\ localSubscriptions = [c \in CompIds |-> {}]
    /\ listening = {}
    /\ subscribing = [c \in CompIds |-> IdleSubscribe]
    /\ mounted = [c \in CompIds |-> TRUE]
    /\ opened = 0

RunIds == 1..MaxRuns

OpIds == 1..MaxOps

\* The refresh-token cookie and the SDK's data cookie: each holds a value or
\* is null.
CookiesSet == [refreshToken |-> TRUE, data |-> TRUE]
CookiesCleared == [refreshToken |-> FALSE, data |-> FALSE]

\* What a guard run returns to the router.
NoOutcome == [kind |-> "none", path |-> <<>>]
Allow == [kind |-> "allow", path |-> <<>>]
Redirect(p) == [kind |-> "redirect", path |-> p]

\* Session and cookie as one value, for the runs' records: before a step and
\* after it.
Snapshot == [cookie |-> redirectCookie, authenticated |-> isAuthenticatedState,
             user |-> currentUser]

SnapshotAfter == [cookie |-> redirectCookie', authenticated |-> isAuthenticatedState',
                  user |-> currentUser']

\* A slot with no navigation.  pc: "idle", "awaiting" (suspended in
\* `await checkAuthStatus()`, request in flight), "resolved" (checkAuthStatus
\* returned, the continuation of the guard is queued), "done".
\* `by`: what started the navigation: "user", or the operation ("login",
\* "logout") whose navigateTo did.  `superseded`: another navigation began
\* while this run was suspended.
\* `cached`: the session flag as it stood when the run began (what
\* isAuthenticated of line 46 held before the revalidation).
\* `checked`: the run called checkAuthStatus.  `me`: what that call got from
\* the backend.  `authenticated`: the run's local of line 99.  `branch`: the
\* return statement that ended the run.  `pre`/`post`: session and cookie
\* before and after the step that ended the run.
IdleRun ==
    [pc |-> "idle", to |-> Target([path |-> <<>>, meta |-> AuthUndefined], <<>>),
     from |-> <<>>, by |-> "user", superseded |-> FALSE,
     cached |-> FALSE, checked |-> FALSE, me |-> NoUser,
     authenticated |-> FALSE, raised |-> FALSE,
     outcome |-> NoOutcome, branch |-> "none",
     pre |-> [cookie |-> <<>>, authenticated |-> FALSE, user |-> NoUser],
     post |-> [cookie |-> <<>>, authenticated |-> FALSE, user |-> NoUser]]

\* A slot with no operation.  kind: "login", "logout", "fetchUser",
\* "refreshToken", or "plugin" for the plugin's own call at setup.  pc: "idle",
\* "calling" (suspended in the backend call that precedes checkAuthStatus:
\* client.login, client.logout, refresh), "awaiting" (suspended in
\* `await checkAuthStatus()`), "resolved" (checkAuthStatus returned, the
\* continuation is queued), "navigating" (navigateTo has been called),
\* "routing" (suspended in `await navigateTo()` while the navigation's guard
\* run is under way), "done".  `threw`: the operation rejected.
\* `navigatedTo`: the argument of its navigateTo, <<>> when it made none.
\* `run`: the slot of the guard run of that navigation, 0 when there is none.
\* `error`: what the operation has written to the error ref of the instance
\* (as "is not null").  The operations in `ops` are called on one instance of
\* useDirectusAuth; its isLoading ref is the variable `isLoading`.
IdleOp ==
    [kind |-> "none", pc |-> "idle", threw |-> FALSE, navigatedTo |-> <<>>, run |-> 0,
     error |-> FALSE]

\* What checkAuthStatus hands to its caller: the user record, or false.
\* ("throw" is the rejection the function never produces.)
ReturnedUser(me) == [kind |-> "user", user |-> me]
ReturnedFalse == [kind |-> "false", user |-> NoUser]
Thrown == [kind |-> "throw", user |-> NoUser]

\* No call of checkAuthStatus has completed yet.
NoCall ==
    [caller |-> "none", me |-> NoUser,
     returned |-> [kind |-> "none", user |-> NoUser], overtaken |-> FALSE]

CheckAuthStatusReturnRethrows(me) ==
    IF me.present THEN ReturnedUser(me) ELSE Thrown

\* directus.ts lines 115 and 116-120: `return me`, and in the catch block
\* `return false`; nothing is rethrown.
CheckAuthStatusReturn(me) ==
    IF me.present THEN ReturnedUser(me) ELSE ReturnedFalse

\* The record of a call by `caller` that got `me` from the backend.
CompletedCall(caller, me, overtaken) ==
    [caller |-> caller, me |-> me, returned |-> CheckAuthStatusReturn(me),
     overtaken |-> overtaken]

\* The composable's role values as a component last read them.  `fn`: the
\* computed ref read or the helper called; `arg`: the helper's argument (a
\* single role for hasRole); `roles`: the array userRoles gave; `role`: the
\* string or null userRole gave; `truth`: the helper's boolean.  `again`: the
\* component has read userRoles a second time; `before`: the array its first
\* read gave.
NoView ==
    [fn |-> "none", arg |-> <<>>, roles |-> <<>>, role |-> Null, truth |-> FALSE,
     again |-> FALSE, before |-> <<>>]

\* After construction the plugin has awaited one checkAuthStatus (on the
\* client) or none (on the server): the session is that call's result.  The
\* browser holds the token cookies of an earlier login, valid or not.
Init ==
    /\ config \in Configs
    /\ \E u \in Users \cup {NoUser} :
          /\ currentUser = u
          /\ isAuthenticatedState = u.present
          /\ lastCall \in {CompletedCall("plugin", u, FALSE)}
                            \cup (IF u.present THEN {} ELSE {NoCall})
    /\ redirectCookie = <<>>
    /\ authCookies = CookiesSet
    /\ runs = [r \in RunIds |-> IdleRun]
    /\ ops = [o \in OpIds |-> IdleOp]
    /\ pending = <<>>
    /\ view = NoView
    /\ isLoading = FALSE
    /\ RealtimeIdle

\* ------------------------------------------------------------ role pipeline

\* permissionsConfig.transform(userRoleValue, currentUser) for the two
\* host-supplied functions: does the call raise, and what does it return.
TransformThrows(transform, value) ==
    \/ transform = "throws"
    \/ transform = "split" /\ value.t # "string"

TransformResult(transform, value) ==
    IF transform = "split" THEN Arr(<<value.s>>)
    ELSE IF transform = "primary" /\ value.t = "array"
    THEN IF Len(value.a) > 0 THEN Str(value.a[1]) ELSE Undefined
    ELSE value

\* Lines 159-166: the transform, when configured, replaces the value; when it
\* raises, the assignment does not happen and the raw value stays.
ApplyTransform(permissions, value) ==
    IF permissions.transform # "none" /\ ~TransformThrows(permissions.transform, value)
    THEN TransformResult(permissions.transform, value)
    ELSE value

\* Lines 168-176: an array as it is, any other non-null value wrapped, null
\* and undefined as the empty array.
NormalizeRoles(value) ==
    IF value.t = "array" THEN value.a
    ELSE IF value.t \notin {"null", "undefined"} THEN <<value.s>>
    ELSE <<>>

\* Line 180: permissionsConfig.mapping[role] || role
MapRole(mapping, role) ==
    IF role \in mapping.keys /\ mapping.val[role] # "" THEN mapping.val[role] ELSE role

\* Lines 178-181
ApplyMapping(permissions, userRoles) ==
    IF permissions.mapping.defined
    THEN [i \in 1..Len(userRoles) |-> MapRole(permissions.mapping, userRoles[i])]
    ELSE userRoles

GuardUserRolesUnmapped(user, permissions) ==
    NormalizeRoles(ApplyTransform(permissions, user.role))

\* Lines 155-181: the guard's userRoles for the current user.
GuardUserRoles(user, permissions) ==
    ApplyMapping(permissions, NormalizeRoles(ApplyTransform(permissions, user.role)))

\* array.includes(x)
Includes(xs, x) == \E i \in 1..Len(xs) : xs[i] = x

\* Line 186: authMeta.roles.some((requiredRole) => userRoles.includes(requiredRole))
HasPermissionEvery(roles, userRoles) ==
    \A i \in 1..Len(userRoles) : Includes(roles, userRoles[i])

HasPermission(roles, userRoles) ==
    \E i \in 1..Len(roles) : Includes(userRoles, roles[i])

\* Line 199: userRoles.some((role) => authMeta.excludeRoles.includes(role))
IsExcludedEvery(excludeRoles, userRoles) ==
    \A i \in 1..Len(userRoles) : Includes(excludeRoles, userRoles[i])

IsExcluded(excludeRoles, userRoles) ==
    \E i \in 1..Len(userRoles) : Includes(excludeRoles, userRoles[i])

\* ------------------------------------------------------------------- guard

\* Lines 63-83: authMeta, the object the later checks read with `authMeta?.`:
\* the declared object, {} for auth: true, undefined otherwise.  Every field
\* of {} and of undefined reads as undefined.
AuthMeta(meta) == IF meta.auth = "object" THEN meta ELSE AuthTrue

\* Lines 56, 67-83: requiresAuth
RequiresAuthGlobalFirst(meta, enableGlobalMiddleware) ==
    IF ~enableGlobalMiddleware THEN meta.auth = "true"
    ELSE meta.auth # "false"

RequiresAuthPublicChecked(meta, enableGlobalMiddleware) ==
    IF meta.auth = "false" THEN enableGlobalMiddleware
    ELSE IF meta.auth \in {"true", "object"} THEN TRUE
    ELSE enableGlobalMiddleware

RequiresAuth(meta, enableGlobalMiddleware) ==
    IF meta.auth = "false" THEN FALSE
    ELSE IF meta.auth = "true" THEN TRUE
    ELSE IF meta.auth = "object" THEN TRUE
    ELSE enableGlobalMiddleware

\* Line 86: [loginPath, registerPath].some((p) => to.path.startsWith(p))
IsAuthPageExact(path) == path = loginPath \/ path = registerPath

IsAuthPage(path) == StartsWith(path, loginPath) \/ StartsWith(path, registerPath)

\* Lines 115 and 220: the test before the cookie is written.
MayStoreRedirect(path) ==
    ~StartsWith(path, loginPath) /\ ~StartsWith(path, registerPath)

\* Line 120: authMeta?.navigateUnauthenticatedTo || loginPath
UnauthenticatedRedirectToAlwaysLogin(authMeta) == loginPath

UnauthenticatedRedirectTo(authMeta) ==
    IF Truthy(authMeta.navigateUnauthenticatedTo)
    THEN authMeta.navigateUnauthenticatedTo
    ELSE loginPath

\* Lines 134-137
AuthenticatedRedirectTo(authMeta) ==
    IF Truthy(authMeta.navigateAuthenticatedTo)
    THEN authMeta.navigateAuthenticatedTo
    ELSE afterLoginPath

\* Line 140: a stored redirect is used when the user comes from login/register.
UseStoredRedirectFromAnywhere(cookie, fromPath) == Truthy(cookie)

UseStoredRedirect(cookie, fromPath) ==
    Truthy(cookie) /\ (StartsWith(fromPath, loginPath) \/ StartsWith(fromPath, registerPath))

RoleCheckAppliesWhenDisabled(permissions, authMeta) ==
    authMeta.roles.declared \/ authMeta.excludeRoles.declared

\* Line 150: permissionsConfig?.enabled && (authMeta?.roles || authMeta?.excludeRoles)
RoleCheckApplies(permissions, authMeta) ==
    permissions.enabled /\ (authMeta.roles.declared \/ authMeta.excludeRoles.declared)

\* Lines 191 and 204: authMeta.unauthorizedRedirect || "/"
UnauthorizedRedirect(authMeta) ==
    IF Truthy(authMeta.unauthorizedRedirect) THEN authMeta.unauthorizedRedirect ELSE <<"/">>

Decision(branch, outcome, cookie) ==
    [branch |-> branch, outcome |-> outcome, cookie |-> cookie]

UnauthenticatedDecisionNoGuestPages(to, cookie) ==
    Decision("to-login", Redirect(UnauthenticatedRedirectTo(AuthMeta(to.meta))),
             IF MayStoreRedirect(to.path) THEN to.fullPath ELSE cookie)

\* Lines 101-122: the session is not authenticated.
UnauthenticatedDecision(to, cookie) ==
    IF AuthMeta(to.meta).unauthenticatedOnly
    THEN Decision("guest-allowed", Allow, cookie)
    ELSE Decision("to-login", Redirect(UnauthenticatedRedirectTo(AuthMeta(to.meta))),
                  IF MayStoreRedirect(to.path) THEN to.fullPath ELSE cookie)

UnauthenticatedOnlyDecisionKeepsCookie(to, fromPath, cookie) ==
    IF UseStoredRedirect(cookie, fromPath)
    THEN Decision("stored-redirect", Redirect(cookie), cookie)
    ELSE Decision("away", Redirect(AuthenticatedRedirectTo(AuthMeta(to.meta))), cookie)

UnauthenticatedOnlyDecisionAlwaysClears(to, fromPath, cookie) ==
    IF UseStoredRedirect(cookie, fromPath)
    THEN Decision("stored-redirect", Redirect(cookie), <<>>)
    ELSE Decision("away", Redirect(AuthenticatedRedirectTo(AuthMeta(to.meta))), <<>>)

\* Lines 126-146: an authenticated user on an unauthenticated-only page.
UnauthenticatedOnlyDecision(to, fromPath, cookie) ==
    IF UseStoredRedirect(cookie, fromPath)
    THEN Decision("stored-redirect", Redirect(cookie), <<>>)
    ELSE Decision("away", Redirect(AuthenticatedRedirectTo(AuthMeta(to.meta))), cookie)

RoleDecisionAllowListExclusive(to, user, cookie, permissions) ==
    LET authMeta == AuthMeta(to.meta)
        userRoles == GuardUserRoles(user, permissions)
    IN  IF ~(RoleCheckApplies(permissions, authMeta) /\ user.present)
        THEN Decision("allowed", Allow, cookie)
        ELSE IF Len(authMeta.roles.list) > 0
        THEN IF HasPermission(authMeta.roles.list, userRoles)
             THEN Decision("allowed", Allow, cookie)
             ELSE Decision("role-missing", Redirect(UnauthorizedRedirect(authMeta)), cookie)
        ELSE IF Len(authMeta.excludeRoles.list) > 0
                /\ IsExcluded(authMeta.excludeRoles.list, userRoles)
        THEN Decision("role-excluded", Redirect(UnauthorizedRedirect(authMeta)), cookie)
        ELSE Decision("allowed", Allow, cookie)

\* Lines 148-209: role-based access control, then the final return of line 227.
RoleDecision(to, user, cookie, permissions) ==
    LET authMeta == AuthMeta(to.meta)
        userRoles == GuardUserRoles(user, permissions)
    IN  IF ~(RoleCheckApplies(permissions, authMeta) /\ user.present)
        THEN Decision("allowed", Allow, cookie)
        ELSE IF Len(authMeta.roles.list) > 0 /\ ~HasPermission(authMeta.roles.list, userRoles)
        THEN Decision("role-missing", Redirect(UnauthorizedRedirect(authMeta)), cookie)
        ELSE IF Len(authMeta.excludeRoles.list) > 0
                /\ IsExcluded(authMeta.excludeRoles.list, userRoles)
        THEN Decision("role-excluded", Redirect(UnauthorizedRedirect(authMeta)), cookie)
        ELSE Decision("allowed", Allow, cookie)

ErrorDecisionToDeclared(to, cookie) ==
    Decision("error", Redirect(UnauthenticatedRedirectTo(AuthMeta(to.meta))),
             IF MayStoreRedirect(to.path) THEN to.fullPath ELSE cookie)

\* Lines 211-225: the catch block.
ErrorDecision(to, cookie) ==
    Decision("error", Redirect(loginPath),
             IF MayStoreRedirect(to.path) THEN to.fullPath ELSE cookie)

GuardDecisionFailureToCatch(to, fromPath, authenticated, user, cookie, permissions, fault) ==
    IF fault \/ ~authenticated THEN ErrorDecision(to, cookie)
    ELSE IF AuthMeta(to.meta).unauthenticatedOnly
    THEN UnauthenticatedOnlyDecision(to, fromPath, cookie)
    ELSE RoleDecision(to, user, cookie, permissions)

\* Lines 95-227: what the guard does once checkAuthStatus has returned, from
\* the session and cookie it then reads.  `fault`: a call made inside the try
\* block raised.
GuardDecision(to, fromPath, authenticated, user, cookie, permissions, fault) ==
    IF fault THEN ErrorDecision(to, cookie)
    ELSE IF ~authenticated THEN UnauthenticatedDecision(to, cookie)
    ELSE IF AuthMeta(to.meta).unauthenticatedOnly
    THEN UnauthenticatedOnlyDecision(to, fromPath, cookie)
    ELSE RoleDecision(to, user, cookie, permissions)

\* -------------------------------------------------- composable role helpers

RoleValueDroppedOnThrow(permissions, value) ==
    IF permissions.transform = "none" THEN value
    ELSE IF TransformThrows(permissions.transform, value) THEN Undefined
    ELSE TransformResult(permissions.transform, value)

\* useDirectusAuth.ts lines 304-311: roleValue after the transform, which is
\* the raw value when no transform is configured or when the transform raises.
RoleValue(permissions, value) ==
    IF permissions.transform # "none" /\ ~TransformThrows(permissions.transform, value)
    THEN TransformResult(permissions.transform, value)
    ELSE value

RolesWrapsEverything(roleValue) ==
    IF roleValue.t = "array" THEN roleValue.a ELSE <<roleValue.s>>

\* Lines 313-321: roles, the value normalised to an array.
Roles(roleValue) ==
    IF roleValue.t = "array" THEN roleValue.a
    ELSE IF roleValue.t \notin {"null", "undefined"} THEN <<roleValue.s>>
    ELSE <<>>

\* xs without the later occurrences of a repeated element.
Deduplicated(xs) ==
    LET keep == {i \in 1..Len(xs) : \A j \in 1..(i - 1) : xs[j] # xs[i]}
    IN  [k \in 1..Cardinality(keep) |->
            xs[CHOOSE i \in keep : Cardinality({j \in keep : j < i}) = k - 1]]

MappedRolesDeduplicated(permissions, roles) ==
    Deduplicated(IF permissions.mapping.defined
                 THEN [i \in 1..Len(roles) |-> MapRole(permissions.mapping, roles[i])]
                 ELSE roles)

\* Lines 323-326: roles.map((role) => mapping[role] || role)
MappedRoles(permissions, roles) ==
    IF permissions.mapping.defined
    THEN [i \in 1..Len(roles) |->
            IF roles[i] \in permissions.mapping.keys /\ permissions.mapping.val[roles[i]] # ""
            THEN permissions.mapping.val[roles[i]]
            ELSE roles[i]]
    ELSE roles

userRolesIgnoresEnabled(user, permissions) ==
    IF ~user.present THEN <<>>
    ELSE MappedRoles(permissions, Roles(RoleValue(permissions, user.role)))

\* Lines 295-329: the computed userRoles.
userRoles(user, permissions) ==
    IF ~user.present THEN <<>>
    ELSE IF ~permissions.enabled THEN <<>>
    ELSE MappedRoles(permissions, Roles(RoleValue(permissions, user.role)))

\* Lines 334-336: userRoles.value[0] || null
userRole(user, permissions) ==
    LET roles == userRoles(user, permissions)
    IN  IF Len(roles) > 0 /\ roles[1] # "" THEN Str(roles[1]) ELSE Null

\* Lines 350-352: userRoles.value.includes(role)
hasRole(user, permissions, role) ==
    \E i \in 1..Len(userRoles(user, permissions)) : userRoles(user, permissions)[i] = role

\* Lines 357-359: roles.some((role) => userRoles.value.includes(role))
hasAnyRole(user, permissions, roles) ==
    \E j \in 1..Len(roles) : hasRole(user, permissions, roles[j])

hasAllRolesAsAny(user, permissions, roles) ==
    \E j \in 1..Len(roles) : hasRole(user, permissions, roles[j])

\* Lines 364-366: roles.every((role) => userRoles.value.includes(role))
hasAllRoles(user, permissions, roles) ==
    \A j \in 1..Len(roles) : hasRole(user, permissions, roles[j])

\* Lines 371-373: !roles.some((role) => userRoles.value.includes(role))
isNotRole(user, permissions, roles) ==
    ~(\E j \in 1..Len(roles) : hasRole(user, permissions, roles[j]))

\* ----------------------------------------------------------------- actions

\* directus.ts lines 104-106: checkAuthStatus is called and sends readMe; the
\* call joins the calls in flight.
BeginCheckAuthStatus(caller, id) ==
    pending' = Append(pending, [caller |-> caller, id |-> id, overtaken |-> FALSE])

\* The place in `pending` of the call made by `caller` from slot `id`.
CallIndex(caller, id) ==
    CHOOSE i \in 1..Len(pending) : pending[i].caller = caller /\ pending[i].id = id

\* The calls left in flight when the i-th completes: those started before it
\* have been overtaken by it.
PendingWithout(i) ==
    [j \in 1..(Len(pending) - 1) |->
        IF j < i THEN [pending[j] EXCEPT !.overtaken = TRUE] ELSE pending[j + 1]]

CheckAuthStatusKeepsUser(caller, id, me) ==
    /\ isAuthenticatedState' = me.present
    /\ currentUser' = IF me.present THEN me ELSE currentUser
    /\ lastCall' = CompletedCall(caller, me, pending[CallIndex(caller, id)].overtaken)
    /\ pending' = PendingWithout(CallIndex(caller, id))

CheckAuthStatusDropsOvertaken(caller, id, me) ==
    /\ IF pending[CallIndex(caller, id)].overtaken
       THEN UNCHANGED <<isAuthenticatedState, currentUser>>
       ELSE isAuthenticatedState' = me.present /\ currentUser' = me
    /\ lastCall' = CompletedCall(caller, me, pending[CallIndex(caller, id)].overtaken)
    /\ pending' = PendingWithout(CallIndex(caller, id))

\* directus.ts lines 104-121, checkAuthStatus once the backend has answered:
\* `me` is the user record of a successful readMe, NoUser a failed request.
\* Both fields are written in one synchronous stretch, whatever other calls
\* are in flight and whichever of them was started first.
CheckAuthStatus(caller, id, me) ==
    /\ isAuthenticatedState' = me.present
    /\ currentUser' = me
    /\ lastCall' = CompletedCall(caller, me, pending[CallIndex(caller, id)].overtaken)
    /\ pending' = PendingWithout(CallIndex(caller, id))

\* Lines 45-97: a navigation started by `by` enters the guard.  The run
\* returns at once for the login/register pages and for public pages;
\* otherwise it calls checkAuthStatus and is suspended.  The runs still
\* suspended belong to navigations that this one supersedes; they go on.
GuardStarts(r, to, fromPath, by) ==
    /\ \A o \in OpIds : ops[o].kind # "plugin"
    /\ UNCHANGED <<realtimeVars, isLoading, authCookies, view, config, isAuthenticatedState, currentUser, redirectCookie, lastCall>>
    /\ IF ~IsAuthPage(to.path) /\ RequiresAuth(to.meta, EnableGlobalMiddleware(config))
       THEN BeginCheckAuthStatus("guard", r)
       ELSE UNCHANGED pending
    /\ LET entered == [IdleRun EXCEPT !.to = to, !.from = fromPath, !.by = by,
                                      !.cached = isAuthenticatedState]
           returned == [entered EXCEPT !.pc = "done", !.outcome = Allow,
                                       !.pre = Snapshot, !.post = SnapshotAfter]
           began == IF IsAuthPage(to.path)
                    THEN [returned EXCEPT !.branch = "auth-page"]
                    ELSE IF ~RequiresAuth(to.meta, EnableGlobalMiddleware(config))
                    THEN [returned EXCEPT !.branch = "public"]
                    ELSE [entered EXCEPT !.pc = "awaiting", !.checked = TRUE]
       IN  runs' = [q \in RunIds |->
                      IF q = r THEN began
                      ELSE IF runs[q].pc \in {"awaiting", "resolved"}
                      THEN [runs[q] EXCEPT !.superseded = TRUE]
                      ELSE runs[q]]

GuardBegins(r, to, fromPath, by) ==
    /\ runs[r].pc = "idle"
    /\ GuardStarts(r, to, fromPath, by)

\* A navigation made by the user (a link, the address bar).
GuardEnter(r, to, fromPath) ==
    /\ GuardBegins(r, to, fromPath, "user")
    /\ UNCHANGED ops

\* Line 97 with directus.ts lines 104-121: the backend answers the request of
\* run r, checkAuthStatus writes the session and returns.
GuardCheckAuthStatus(r, me) ==
    /\ runs[r].pc = "awaiting"
    /\ CheckAuthStatus("guard", r, me)
    /\ runs' = [runs EXCEPT ![r].pc = "resolved", ![r].me = me]
    /\ UNCHANGED <<realtimeVars, isLoading, authCookies, view, config, redirectCookie, ops>>

AuthenticatedFromCache(r) == runs[r].cached

\* Line 99: const authenticated = isAuthenticated.value, read after the
\* await; the value checkAuthStatus returned to the run is not used.
Authenticated(r) == isAuthenticatedState

GuardResumeUnlessSuperseded(r, fault) ==
    /\ runs[r].pc = "resolved"
    /\ LET raised == fault \/ CheckAuthStatusReturn(runs[r].me) = Thrown
           d == IF runs[r].superseded
                THEN Decision("cancelled", NoOutcome, redirectCookie)
                ELSE GuardDecision(runs[r].to, runs[r].from, Authenticated(r),
                                   currentUser, redirectCookie, config.permissions, raised)
       IN  /\ redirectCookie' = d.cookie
           /\ UNCHANGED <<realtimeVars, isLoading, authCookies, view, config, isAuthenticatedState, currentUser, ops, pending, lastCall>>
           /\ runs' = [runs EXCEPT ![r].pc = "done",
                                   ![r].authenticated = Authenticated(r),
                                   ![r].raised = raised,
                                   ![r].branch = d.branch,
                                   ![r].outcome = d.outcome,
                                   ![r].pre = Snapshot,
                                   ![r].post = SnapshotAfter]

GuardResumeOnceAuthenticated(r, fault) ==
    /\ runs[r].pc = "resolved"
    /\ isAuthenticatedState
    /\ LET raised == fault \/ CheckAuthStatusReturn(runs[r].me) = Thrown
           d == GuardDecision(runs[r].to, runs[r].from, Authenticated(r),
                              currentUser, redirectCookie, config.permissions, raised)
       IN  /\ redirectCookie' = d.cookie
           /\ UNCHANGED <<realtimeVars, isLoading, authCookies, view, config, isAuthenticatedState, currentUser, ops, pending, lastCall>>
           /\ runs' = [runs EXCEPT ![r].pc = "done",
                                   ![r].authenticated = Authenticated(r),
                                   ![r].raised = raised,
                                   ![r].branch = d.branch,
                                   ![r].outcome = d.outcome,
                                   ![r].pre = Snapshot,
                                   ![r].post = SnapshotAfter]

\* Lines 99-227: run r continues after the await, reads the session and the
\* cookie, and returns.  The catch block is entered when the awaited call
\* rejected or when a later call in the try block raised (`fault`).
GuardResume(r, fault) ==
    /\ runs[r].pc = "resolved"
    /\ LET raised == fault \/ CheckAuthStatusReturn(runs[r].me) = Thrown
           d == GuardDecision(runs[r].to, runs[r].from, Authenticated(r),
                              currentUser, redirectCookie, config.permissions, raised)
       IN  /\ redirectCookie' = d.cookie
           /\ UNCHANGED <<realtimeVars, isLoading, authCookies, view, config, isAuthenticatedState, currentUser, ops, pending, lastCall>>
           /\ runs' = [runs EXCEPT ![r].pc = "done",
                                   ![r].authenticated = Authenticated(r),
                                   ![r].raised = raised,
                                   ![r].branch = d.branch,
                                   ![r].outcome = d.outcome,
                                   ![r].pre = Snapshot,
                                   ![r].post = SnapshotAfter]

\* The router has taken the outcome of run r (it proceeds to the page or
\* starts the redirect's navigation); the slot is free for a new navigation.
RouterSettle(r) ==
    /\ runs[r].pc = "done"
    /\ runs[r].by = "user"
    /\ runs' = [runs EXCEPT ![r] = IdleRun]
    /\ UNCHANGED <<realtimeVars, isLoading, authCookies, view, config, isAuthenticatedState, currentUser, redirectCookie,
                   ops, pending, lastCall>>

\* The router has taken a redirect from run r: the navigation to the run's
\* target is dropped and the navigation to `to`, the route of the redirect's
\* path, starts from the page the user is still on; the global middleware
\* runs for it.
RouterRedirects(r, to) ==
    /\ runs[r].pc = "done"
    /\ runs[r].outcome.kind = "redirect"
    /\ to.fullPath = runs[r].outcome.path
    /\ GuardStarts(r, to, runs[r].from, runs[r].by)
    /\ UNCHANGED ops

\* Line 111, maxAge: the browser drops the cookie ten minutes after the write.
CookieExpire ==
    /\ Truthy(redirectCookie)
    /\ redirectCookie' = <<>>
    /\ UNCHANGED <<realtimeVars, isLoading, authCookies, view, config, isAuthenticatedState, currentUser, runs, ops, pending, lastCall>>

\* A component reads a computed ref of the composable or calls one of its
\* helpers; nothing but the component's copy changes.
ReadComposable(fn, arg, roles, role, truth) ==
    /\ view = NoView
    /\ view' = [NoView EXCEPT !.fn = fn, !.arg = arg, !.roles = roles, !.role = role,
                              !.truth = truth]
    /\ UNCHANGED <<realtimeVars, isLoading, authCookies, config, isAuthenticatedState, currentUser, redirectCookie, runs,
                   ops, pending, lastCall>>

ReadUserRolesWritesBack ==
    /\ view = NoView
    /\ view' = [NoView EXCEPT !.fn = "userRoles",
                              !.roles = userRoles(currentUser, config.permissions)]
    /\ currentUser' = IF currentUser.present
                      THEN [currentUser EXCEPT
                               !.role = Arr(userRoles(currentUser, config.permissions))]
                      ELSE currentUser
    /\ UNCHANGED <<realtimeVars, isLoading, authCookies, config, isAuthenticatedState, redirectCookie, runs, ops, pending, lastCall>>

ReadUserRoles ==
    ReadComposable("userRoles", <<>>, userRoles(currentUser, config.permissions), Null, FALSE)

\* The component reads userRoles once more (the computed ref is evaluated
\* again from the same user record and configuration).
ReadUserRolesAgain ==
    /\ view.fn = "userRoles"
    /\ ~view.again
    /\ view' = [view EXCEPT !.again = TRUE, !.before = view.roles,
                            !.roles = userRoles(currentUser, config.permissions)]
    /\ UNCHANGED <<realtimeVars, isLoading, authCookies, config, isAuthenticatedState, currentUser, redirectCookie, runs,
                   ops, pending, lastCall>>

ReadUserRole ==
    ReadComposable("userRole", <<>>, <<>>, userRole(currentUser, config.permissions), FALSE)

CallHasRole(role) ==
    ReadComposable("hasRole", <<role>>, <<>>, Null,
                   hasRole(currentUser, config.permissions, role))

CallHasAnyRole(roles) ==
    ReadComposable("hasAnyRole", roles, <<>>, Null,
                   hasAnyRole(currentUser, config.permissions, roles))

CallHasAllRoles(roles) ==
    ReadComposable("hasAllRoles", roles, <<>>, Null,
                   hasAllRoles(currentUser, config.permissions, roles))

CallIsNotRole(roles) ==
    ReadComposable("isNotRole", roles, <<>>, Null,
                   isNotRole(currentUser, config.permissions, roles))

\* The component drops what it read (it renders again or unmounts).
DiscardView ==
    /\ view # NoView
    /\ view' = NoView
    /\ UNCHANGED <<realtimeVars, isLoading, authCookies, config, isAuthenticatedState, currentUser, redirectCookie, runs,
                   ops, pending, lastCall>>

\* The application is up: the plugin's setup, which awaits its own call of
\* checkAuthStatus (directus.ts lines 134-137), has returned.
AppStarted == \A o \in OpIds : ops[o].kind # "plugin"

\* useDirectusAuth.ts lines 43-58: login() is called and awaits client.login.
login(o) ==
    /\ AppStarted
    /\ ops[o].pc = "idle"
    /\ ops' = [ops EXCEPT ![o] = [IdleOp EXCEPT !.kind = "login", !.pc = "calling"]]
    /\ isLoading' = TRUE
    /\ UNCHANGED <<realtimeVars, authCookies, view, config, isAuthenticatedState, currentUser,
                   redirectCookie, runs, pending, lastCall>>

logoutResetsSession(o) ==
    /\ AppStarted
    /\ ops[o].pc = "idle"
    /\ ops' = [ops EXCEPT ![o] = [IdleOp EXCEPT !.kind = "logout", !.pc = "calling"]]
    /\ isLoading' = TRUE
    /\ isAuthenticatedState' = FALSE
    /\ currentUser' = NoUser
    /\ UNCHANGED <<realtimeVars, authCookies, view, config, redirectCookie, runs, pending, lastCall>>

\* Lines 93-105: logout() is called and awaits client.logout.
logout(o) ==
    /\ AppStarted
    /\ ops[o].pc = "idle"
    /\ ops' = [ops EXCEPT ![o] = [IdleOp EXCEPT !.kind = "logout", !.pc = "calling"]]
    /\ isLoading' = TRUE
    /\ UNCHANGED <<realtimeVars, authCookies, view, config, isAuthenticatedState, currentUser,
                   redirectCookie, runs, pending, lastCall>>

\* Lines 275-281: refreshToken() is called and awaits the refresh request.
refreshToken(o) ==
    /\ AppStarted
    /\ ops[o].pc = "idle"
    /\ ops' = [ops EXCEPT ![o] = [IdleOp EXCEPT !.kind = "refreshToken", !.pc = "calling"]]
    /\ isLoading' = TRUE
    /\ UNCHANGED <<realtimeVars, authCookies, view, config, isAuthenticatedState, currentUser,
                   redirectCookie, runs, pending, lastCall>>

\* Lines 205-210: fetchUser() is called and awaits checkAuthStatus.
fetchUser(o) ==
    /\ AppStarted
    /\ ops[o].pc = "idle"
    /\ ops' = [ops EXCEPT ![o] = [IdleOp EXCEPT !.kind = "fetchUser", !.pc = "awaiting"]]
    /\ isLoading' = TRUE
    /\ BeginCheckAuthStatus("fetchUser", o)
    /\ UNCHANGED <<realtimeVars, authCookies, view, config, isAuthenticatedState, currentUser,
                   redirectCookie, runs, lastCall>>

\* Lines 148-167 (and 181-191, 223-236, 250-261, 378-390, 404-418): register()
\* is called and awaits its request; verifyEmail, requestPasswordReset,
\* resetPassword, updatePassword and generateTwoFactorSecret have its shape.
register(o) ==
    /\ AppStarted
    /\ ops[o].pc = "idle"
    /\ ops' = [ops EXCEPT ![o] = [IdleOp EXCEPT !.kind = "register", !.pc = "calling"]]
    /\ isLoading' = TRUE
    /\ UNCHANGED <<realtimeVars, authCookies, view, config, isAuthenticatedState, currentUser,
                   redirectCookie, runs, pending, lastCall>>

\* Lines 431-445 (and 462-476): enableTwoFactor() is called and awaits its
\* request; disableTwoFactor has its shape.
enableTwoFactor(o) ==
    /\ AppStarted
    /\ ops[o].pc = "idle"
    /\ ops' = [ops EXCEPT ![o] = [IdleOp EXCEPT !.kind = "enableTwoFactor", !.pc = "calling"]]
    /\ isLoading' = TRUE
    /\ UNCHANGED <<realtimeVars, authCookies, view, config, isAuthenticatedState, currentUser,
                   redirectCookie, runs, pending, lastCall>>

ClientRequestSettlesThenRevalidates(o, ok) ==
    /\ ops[o].pc = "calling"
    /\ UNCHANGED <<realtimeVars, view, config, isAuthenticatedState, currentUser, redirectCookie,
                   runs, lastCall>>
    /\ IF ops[o].kind = "logout" \/ ~ok
       THEN /\ ops' = [ops EXCEPT ![o].pc = "awaiting", ![o].error = ~ok]
            /\ authCookies' = CookiesCleared
            /\ BeginCheckAuthStatus(ops[o].kind, o)
            /\ UNCHANGED isLoading
       ELSE IF ops[o].kind = "register"
       THEN /\ ops' = [ops EXCEPT ![o].pc = "done"]
            /\ isLoading' = FALSE
            /\ UNCHANGED <<authCookies, pending>>
       ELSE /\ ops' = [ops EXCEPT ![o].pc = "awaiting"]
            /\ authCookies' = IF ops[o].kind = "enableTwoFactor" THEN authCookies ELSE CookiesSet
            /\ BeginCheckAuthStatus(ops[o].kind, o)
            /\ UNCHANGED isLoading

\* The backend answers the operation's request.  login (lines 58-61, 82-86),
\* refreshToken (lines 281-288) and enableTwoFactor (445-455) set error,
\* rethrow a failure and end with isLoading false; after a success, which for
\* login and refreshToken leaves the token cookies set, they go on to
\* checkAuthStatus.  logout clears both cookies and calls checkAuthStatus
\* after a success (lines 107-122) and, with error set, in its catch block
\* after a failure (lines 128-136).  register returns true after a success
\* (lines 169-175) and sets error and rethrows after a failure; both ways
\* end with isLoading false.
ClientRequestSettles(o, ok) ==
    /\ ops[o].pc = "calling"
    /\ UNCHANGED <<realtimeVars, view, config, isAuthenticatedState, currentUser, redirectCookie,
                   runs, lastCall>>
    /\ IF ops[o].kind = "logout"
       THEN /\ ops' = [ops EXCEPT ![o].pc = "awaiting", ![o].error = ~ok]
            /\ authCookies' = CookiesCleared
            /\ BeginCheckAuthStatus(ops[o].kind, o)
            /\ UNCHANGED isLoading
       ELSE IF ok /\ ops[o].kind = "register"
       THEN /\ ops' = [ops EXCEPT ![o].pc = "done"]
            /\ isLoading' = FALSE
            /\ UNCHANGED <<authCookies, pending>>
       ELSE IF ok
       THEN /\ ops' = [ops EXCEPT ![o].pc = "awaiting"]
            /\ authCookies' = IF ops[o].kind = "enableTwoFactor" THEN authCookies ELSE CookiesSet
            /\ BeginCheckAuthStatus(ops[o].kind, o)
            /\ UNCHANGED isLoading
       ELSE /\ ops' = [ops EXCEPT ![o].pc = "done", ![o].threw = TRUE, ![o].error = TRUE]
            /\ isLoading' = FALSE
            /\ UNCHANGED <<authCookies, pending>>

\* directus.ts lines 104-121 for the call made by operation o (lines 61, 122,
\* 136, 210, 282 of the composable; directus.ts line 136 for the plugin).
OpCheckAuthStatus(o, me) ==
    /\ ops[o].pc = "awaiting"
    /\ CheckAuthStatus(ops[o].kind, o, me)
    /\ ops' = [ops EXCEPT ![o].pc = "resolved"]
    /\ UNCHANGED <<realtimeVars, isLoading, authCookies, view, config, redirectCookie, runs>>

LoginRedirectToDefault(cookie) == afterLoginPath

\* Line 74: redirectCookie.value || afterLoginPath
LoginRedirectTo(cookie) == IF Truthy(cookie) THEN cookie ELSE afterLoginPath

\* The operation continues after `await checkAuthStatus()` whatever the call
\* returned.  login (lines 68-79) reads the redirect cookie, clears it and
\* calls navigateTo; logout (lines 125-126, 138-139) calls navigateTo with
\* afterLogoutPath; fetchUser, refreshToken and the plugin's setup return,
\* through `finally` where there is one.
OpResume(o) ==
    /\ ops[o].pc = "resolved"
    /\ UNCHANGED <<realtimeVars, authCookies, view, config, isAuthenticatedState, currentUser, runs,
                   pending, lastCall>>
    /\ CASE ops[o].kind = "login" ->
              /\ ops' = [ops EXCEPT ![o].pc = "navigating",
                                    ![o].navigatedTo = LoginRedirectTo(redirectCookie)]
              /\ redirectCookie' = <<>>
              /\ UNCHANGED isLoading
         [] ops[o].kind = "logout" ->
              /\ ops' = [ops EXCEPT ![o].pc = "navigating", ![o].navigatedTo = afterLogoutPath]
              /\ UNCHANGED <<redirectCookie, isLoading>>
         [] ops[o].kind = "plugin" ->
              /\ ops' = [ops EXCEPT ![o].pc = "done"]
              /\ UNCHANGED <<redirectCookie, isLoading>>
         [] OTHER ->
              /\ ops' = [ops EXCEPT ![o].pc = "done"]
              /\ isLoading' = FALSE
              /\ UNCHANGED redirectCookie

\* The route a full path resolves to.
RouteTo(fullPath) == CHOOSE t \in Targets : t.fullPath = fullPath

\* Lines 79, 126, 139: the router starts the navigation that the operation's
\* navigateTo asked for, from the page the operation was called on; the
\* global middleware runs for it like for any navigation.
OpNavigates(o, r, fromPath) ==
    /\ ops[o].pc = "navigating"
    /\ GuardBegins(r, RouteTo(ops[o].navigatedTo), fromPath, ops[o].kind)
    /\ ops' = [ops EXCEPT ![o].pc = "routing", ![o].run = r]

OpReturnKeepsLoading(o) ==
    /\ ops[o].pc = "routing"
    /\ runs[ops[o].run].pc = "done"
    /\ ops' = [ops EXCEPT ![o].pc = "done"]
    /\ isLoading' = (ops[o].kind = "logout" /\ ops[o].error)
    /\ runs' = [runs EXCEPT ![ops[o].run] = IdleRun]
    /\ UNCHANGED <<realtimeVars, authCookies, view, config, isAuthenticatedState, currentUser, redirectCookie,
                   pending, lastCall>>

\* Lines 79-87, 126 and 139-142: the guard run of the operation's navigation
\* has returned, `await navigateTo()` resolves, and the operation returns
\* through `finally`.
OpReturn(o) ==
    /\ ops[o].pc = "routing"
    /\ runs[ops[o].run].pc = "done"
    /\ ops' = [ops EXCEPT ![o].pc = "done"]
    /\ isLoading' = FALSE
    /\ runs' = [runs EXCEPT ![ops[o].run] = IdleRun]
    /\ UNCHANGED <<realtimeVars, authCookies, view, config, isAuthenticatedState, currentUser, redirectCookie,
                   pending, lastCall>>

\* The caller has taken the operation's result; the slot is free again.
OpSettle(o) ==
    /\ ops[o].pc = "done"
    /\ ops' = [ops EXCEPT ![o] = IdleOp]
    /\ UNCHANGED <<realtimeVars, isLoading, authCookies, view, config, isAuthenticatedState, currentUser, redirectCookie, runs,
                   pending, lastCall>>

\* ------------------------------------------------------- realtime registry

authVars == <<config, isAuthenticatedState, currentUser, redirectCookie, authCookies, runs,
              ops, pending, lastCall, view, isLoading>>

\* Calls suspended in `await client.subscribe`.
Awaiting == {c \in CompIds : subscribing[c].pc = "awaiting"}

\* part_004 lines 33-45: component c calls subscribe with a uid.  When the
\* registry has the uid the call returns the registered handler; otherwise it
\* calls client.subscribe and is suspended.
subscribe(c, uid, collection, persistent) ==
    /\ mounted[c]
    /\ subscribing[c].pc = "idle"
    /\ opened + Cardinality(Awaiting) < MaxOpened
    /\ IF subscriptions[uid] # NoHandler
       THEN /\ subscribing' = [subscribing EXCEPT ![c] =
                  [IdleSubscribe EXCEPT !.pc = "returned", !.uid = uid,
                                        !.got = subscriptions[uid].sub]]
            /\ subscriptions' = [subscriptions EXCEPT ![uid].holders = @ \cup {c}]
       ELSE /\ subscribing' = [subscribing EXCEPT ![c] =
                  [IdleSubscribe EXCEPT !.pc = "awaiting", !.uid = uid,
                                        !.collection = collection,
                                        !.persistent = persistent]]
            /\ UNCHANGED subscriptions
    /\ UNCHANGED <<localSubscriptions, listening, mounted, opened, authVars>>

\* Lines 49-82: client.subscribe resolves for the call of component c; the
\* continuation starts listening, builds the handler, registers it under the
\* uid (Map.set replaces an entry that is there) and, unless persistent,
\* adds the uid to the component's local set.
ClientSubscribeResolves(c) ==
    /\ subscribing[c].pc = "awaiting"
    /\ LET call == subscribing[c]
           sub == opened + 1
       IN  /\ opened' = sub
           /\ listening' = listening \cup {[sub |-> sub, uid |-> call.uid]}
           /\ subscriptions' = [subscriptions EXCEPT ![call.uid] =
                   [sub |-> sub, collection |-> call.collection,
                    persistent |-> call.persistent, by |-> c, holders |-> {c}]]
           /\ localSubscriptions' =
                   IF call.persistent THEN localSubscriptions
                   ELSE [localSubscriptions EXCEPT ![c] = @ \cup {call.uid}]
           /\ subscribing' = [subscribing EXCEPT ![c] =
                   [IdleSubscribe EXCEPT !.pc = "returned", !.uid = call.uid, !.got = sub]]
    /\ UNCHANGED <<mounted, authVars>>

\* Lines 83-86: client.subscribe rejects; subscribe logs and rethrows.
ClientSubscribeRejects(c) ==
    /\ subscribing[c].pc = "awaiting"
    /\ subscribing' = [subscribing EXCEPT ![c] = [IdleSubscribe EXCEPT !.pc = "threw"]]
    /\ UNCHANGED <<subscriptions, localSubscriptions, listening, mounted, opened, authVars>>

\* The caller has taken the result of subscribe.
SubscribeSettle(c) ==
    /\ subscribing[c].pc \in {"returned", "threw"}
    /\ subscribing' = [subscribing EXCEPT ![c] = IdleSubscribe]
    /\ UNCHANGED <<subscriptions, localSubscriptions, listening, mounted, opened, authVars>>

\* The registry, the local sets and the open subscriptions as one value, for
\* the loops that call unsubscribe several times.
Registry == [subscriptions |-> subscriptions, localSubscriptions |-> localSubscriptions,
             listening |-> listening]

\* Lines 92-109: unsubscribe(id) called through the instance of component c.
\* An unknown id is logged; otherwise handler.unsubscribe() is called, the
\* entry is deleted from the registry and the id from the local set of c.
\* When handler.unsubscribe() raises (`throws`) the catch block logs and
\* nothing is deleted.
Unsubscribed(reg, c, id, throws) ==
    LET handler == reg.subscriptions[id]
    IN  IF handler = NoHandler \/ throws THEN reg
        ELSE [subscriptions |-> [reg.subscriptions EXCEPT ![id] = NoHandler],
              localSubscriptions |-> [reg.localSubscriptions EXCEPT ![c] = @ \ {id}],
              listening |-> {l \in reg.listening : l.sub # handler.sub}]

\* toRemove.forEach((id) => unsubscribe(id)), lines 123, 138 and 181-183.
RECURSIVE UnsubscribedEach(_, _, _, _)
UnsubscribedEach(reg, c, toRemove, failing) ==
    IF toRemove = {} THEN reg
    ELSE LET id == CHOOSE x \in toRemove : TRUE
         IN  UnsubscribedEach(Unsubscribed(reg, c, id, id \in failing), c,
                              toRemove \ {id}, failing)

SetRegistry(reg) ==
    /\ subscriptions' = reg.subscriptions
    /\ localSubscriptions' = reg.localSubscriptions
    /\ listening' = reg.listening

unsubscribe(c, id, throws) ==
    /\ mounted[c]
    /\ throws => subscriptions[id] # NoHandler
    /\ SetRegistry(Unsubscribed(Registry, c, id, throws))
    /\ UNCHANGED <<subscribing, mounted, opened, authVars>>

\* Lines 114-124: the ids of the collection's handlers that are not
\* persistent, then unsubscribe for each.
unsubscribeCollection(c, collection, failing) ==
    /\ mounted[c]
    /\ LET toRemove == {id \in Uids : /\ subscriptions[id] # NoHandler
                                       /\ subscriptions[id].collection = collection
                                       /\ ~subscriptions[id].persistent}
       IN  /\ failing \subseteq toRemove
           /\ SetRegistry(UnsubscribedEach(Registry, c, toRemove, failing))
    /\ UNCHANGED <<subscribing, mounted, opened, authVars>>

\* Lines 129-139: the ids of all handlers that are not persistent, then
\* unsubscribe for each.
unsubscribeAll(c, failing) ==
    /\ mounted[c]
    /\ LET toRemove == {id \in Uids : /\ subscriptions[id] # NoHandler
                                       /\ ~subscriptions[id].persistent}
       IN  /\ failing \subseteq toRemove
           /\ SetRegistry(UnsubscribedEach(Registry, c, toRemove, failing))
    /\ UNCHANGED <<subscribing, mounted, opened, authVars>>

\* Lines 180-184: component c unmounts; unsubscribe for each id of its local
\* set.
Unmount(c, failing) ==
    /\ mounted[c]
    /\ mounted' = [mounted EXCEPT ![c] = FALSE]
    /\ failing \subseteq {id \in localSubscriptions[c] : subscriptions[id] # NoHandler}
    /\ SetRegistry(UnsubscribedEach(Registry, c, localSubscriptions[c], failing))
    /\ UNCHANGED <<subscribing, opened, authVars>>

\* Lines 22-28: the component is mounted again; useDirectusRealtime() gives
\* it a new instance with an empty local set.
Mount(c) ==
    /\ ~mounted[c]
    /\ subscribing[c].pc = "idle"
    /\ mounted' = [mounted EXCEPT ![c] = TRUE]
    /\ localSubscriptions' = [localSubscriptions EXCEPT ![c] = {}]
    /\ UNCHANGED <<subscriptions, listening, subscribing, opened, authVars>>

\* ---------------------------------------------------------- specifications

\* Navigations one at a time (the router's common case): a navigation starts
\* when the previous guard run has returned, so only the first slot of `runs`
\* is in use, and no framework call inside the try block raises.
Navigate == \E to \in Targets, fromPath \in FromPaths : GuardEnter(1, to, fromPath)

Revalidate == \E me \in Users \cup {NoUser} : GuardCheckAuthStatus(1, me)

Resume == GuardResume(1, FALSE)

Settle == RouterSettle(1)

Next == Navigate \/ Revalidate \/ Resume \/ Settle \/ CookieExpire

Spec == Init /\ [][Next]_vars

\* The session under overlapping calls of checkAuthStatus: the plugin's call
\* at setup, then guard runs and composable operations in any interleaving.
\* The backend knows two accounts; the application protects every page and
\* has three pages: a protected one, one that declares its own redirect for
\* unauthenticated users, and an unauthenticated-only one.  Navigations
\* leave the login page.
SessionUsers == {[present |-> TRUE, role |-> Str("admin")], [present |-> TRUE, role |-> Str("x")]}

SessionTargets ==
    {t \in Targets : t.fullPath \in {<<"/dashboard">>, <<"/members">>, <<"/welcome">>}}

\* The state when the plugin's setup runs: the useState defaults (directus.ts
\* lines 69-70); on the client the plugin's call is in flight, on the server
\* it is not made.
SessionInit ==
    /\ config = [enableGlobalMiddleware |-> "true", permissions |-> DefaultPermissions]
    /\ isAuthenticatedState = FALSE
    /\ currentUser = NoUser
    /\ redirectCookie = <<>>
    /\ authCookies = CookiesCleared
    /\ runs = [r \in RunIds |-> IdleRun]
    /\ lastCall = NoCall
    /\ view = NoView
    /\ isLoading = FALSE
    /\ RealtimeIdle
    /\ \/ /\ ops = [o \in OpIds |-> IF o = 1
                                     THEN [IdleOp EXCEPT !.kind = "plugin", !.pc = "awaiting"]
                                     ELSE IdleOp]
          /\ pending = <<[caller |-> "plugin", id |-> 1, overtaken |-> FALSE]>>
       \/ /\ ops = [o \in OpIds |-> IdleOp]
          /\ pending = <<>>

\* Guard runs and operations that have started and not been settled.
InFlight ==
    Cardinality({r \in RunIds : runs[r].pc # "idle"})
        + Cardinality({o \in OpIds : ops[o].pc # "idle"})

\* A navigation takes the first free slot of `runs`, an operation the first
\* free slot of `ops`.
FirstIdleRun(r) == runs[r].pc = "idle" /\ \A q \in 1..(r - 1) : runs[q].pc # "idle"

FirstIdleOp(o) == ops[o].pc = "idle" /\ \A q \in 1..(o - 1) : ops[q].pc # "idle"

\* Operations are called on the login page.
SessionOpNavigates ==
    /\ InFlight < MaxInFlight
    /\ \E o \in OpIds, r \in RunIds : FirstIdleRun(r) /\ OpNavigates(o, r, loginPath)

SessionOpReturn == \E o \in OpIds : OpReturn(o)

SessionNavigate ==
    /\ InFlight < MaxInFlight
    /\ \E r \in RunIds, to \in SessionTargets : FirstIdleRun(r) /\ GuardEnter(r, to, loginPath)

SessionGuardRevalidate ==
    \E r \in RunIds, me \in SessionUsers \cup {NoUser} : GuardCheckAuthStatus(r, me)

SessionGuardResume == \E r \in RunIds : GuardResume(r, FALSE)

SessionGuardSettle == \E r \in RunIds : RouterSettle(r)

SessionOpStart ==
    \E o \in OpIds :
        \/ InFlight < MaxInFlight /\ FirstIdleOp(o) /\ login(o)
        \/ InFlight < MaxInFlight /\ FirstIdleOp(o) /\ logout(o)
        \/ InFlight < MaxInFlight /\ FirstIdleOp(o) /\ refreshToken(o)
        \/ InFlight < MaxInFlight /\ FirstIdleOp(o) /\ fetchUser(o)

SessionOpRequest == \E o \in OpIds, ok \in BOOLEAN : ClientRequestSettles(o, ok)

SessionOpRevalidate ==
    \E o \in OpIds, me \in SessionUsers \cup {NoUser} : OpCheckAuthStatus(o, me)

SessionOpResume == \E o \in OpIds : OpResume(o)

SessionOpSettle == \E o \in OpIds : OpSettle(o)

SessionNext ==
    \/ SessionNavigate \/ SessionGuardRevalidate \/ SessionGuardResume \/ SessionGuardSettle
    \/ SessionOpStart \/ SessionOpRequest \/ SessionOpRevalidate \/ SessionOpResume
    \/ SessionOpNavigates \/ SessionOpReturn \/ SessionOpSettle

SessionSpec == SessionInit /\ [][SessionNext]_vars

\* One user's journey, one thing at a time: navigations and the composable's
\* operations, each started when the previous one has finished; login and
\* logout end with the navigation they ask for.  Every page is protected unless it says
\* otherwise, permissions are off or on, and a call inside the guard's try
\* block may raise.
AccountTargets ==
    {t \in Targets :
        t.fullPath \in {<<"/dashboard">>, <<"/dashboard", "?tab=1">>, <<"/members">>,
                        <<"/welcome">>, <<"/admin">>,
                        loginPath \o <<"/help">>, registerPath \o <<"/terms">>}}

AccountInit ==
    /\ config \in [enableGlobalMiddleware : {"true"},
                    permissions : {DefaultPermissions,
                                   [enabled |-> TRUE, mapping |-> NoMapping,
                                    transform |-> "none"]}]
    /\ isAuthenticatedState = FALSE
    /\ currentUser = NoUser
    /\ lastCall = CompletedCall("plugin", NoUser, FALSE)
    /\ redirectCookie = <<>>
    /\ authCookies = CookiesCleared
    /\ runs = [r \in RunIds |-> IdleRun]
    /\ ops = [o \in OpIds |-> IdleOp]
    /\ pending = <<>>
    /\ view = NoView
    /\ isLoading = FALSE
    /\ RealtimeIdle

\* Nothing is under way.
Quiet == (\A r \in RunIds : runs[r].pc = "idle") /\ (\A o \in OpIds : ops[o].pc = "idle")

AccountNavigate ==
    /\ Quiet
    /\ \E to \in AccountTargets, fromPath \in {loginPath, <<"/dashboard">>} :
          GuardEnter(1, to, fromPath)

AccountRevalidate == \E me \in SessionUsers \cup {NoUser} : GuardCheckAuthStatus(1, me)

AccountResume == \E fault \in BOOLEAN : GuardResume(1, fault)

AccountSettle == RouterSettle(1)

AccountLogin == Quiet /\ login(1)

AccountLogout == Quiet /\ logout(1)

AccountFetchUser == Quiet /\ fetchUser(1)

AccountRefreshToken == Quiet /\ refreshToken(1)

AccountRegister == Quiet /\ register(1)

AccountEnableTwoFactor == Quiet /\ enableTwoFactor(1)

AccountRequest == \E ok \in BOOLEAN : ClientRequestSettles(1, ok)

AccountOpRevalidate == \E me \in SessionUsers \cup {NoUser} : OpCheckAuthStatus(1, me)

AccountOpResume == OpResume(1)

AccountOpNavigates ==
    \E fromPath \in {loginPath, <<"/dashboard">>} : OpNavigates(1, 1, fromPath)

AccountOpReturn == OpReturn(1)

AccountOpSettle == OpSettle(1)

\* A component of the page reads the user's roles or asks for one.
AccountRead == Quiet /\ (ReadUserRoles \/ CallHasRole("admin"))

AccountDiscard == DiscardView

AccountNext ==
    \/ AccountNavigate \/ AccountRevalidate \/ AccountResume \/ AccountSettle
    \/ AccountLogin \/ AccountLogout \/ AccountFetchUser \/ AccountRefreshToken
    \/ AccountRegister \/ AccountEnableTwoFactor \/ AccountRequest \/ AccountOpRevalidate
    \/ AccountOpResume \/ AccountOpNavigates \/ AccountOpReturn \/ AccountOpSettle
    \/ AccountRead \/ AccountDiscard \/ CookieExpire

AccountSpec == AccountInit /\ [][AccountNext]_vars

\* The same journey on a JavaScript event loop: once the promise of
\* checkAuthStatus has settled, the continuation of the suspended handler is
\* a queued microtask and runs; everything after the await is synchronous.
\* Nothing obliges the backend to answer, so the request itself is not fair.
AccountFairSpec == AccountSpec /\ WF_vars(AccountResume)

\* Redirects followed.  An application whose home page is for administrators
\* only: its pages, with every path a redirect can name among them.  The
\* backend answers every revalidation the same way, so the session stays as
\* it is, and the router follows each redirect with a new navigation.
FollowRoutes ==
    { [path |-> loginPath,
       meta |-> [AuthObject EXCEPT !.unauthenticatedOnly = TRUE,
                                   !.navigateAuthenticatedTo = <<"/dashboard">>]],
      [path |-> <<"/">>, meta |-> [AuthObject EXCEPT !.roles = List(<<"admin">>)]],
      [path |-> <<"/dashboard">>, meta |-> AuthTrue],
      [path |-> <<"/welcome">>, meta |-> [AuthObject EXCEPT !.unauthenticatedOnly = TRUE]],
      [path |-> <<"/members">>,
       meta |-> [AuthObject EXCEPT !.navigateUnauthenticatedTo = <<"/welcome">>]],
      [path |-> <<"/admin">>,
       meta |-> [AuthObject EXCEPT !.roles = List(<<"admin", "editor">>)]],
      [path |-> <<"/admin", "/users">>,
       meta |-> [AuthObject EXCEPT !.roles = List(<<"admin">>),
                                   !.unauthorizedRedirect = <<"/403">>]],
      [path |-> <<"/403">>, meta |-> AuthFalse] }

FollowTargets == {Target(r, <<>>) : r \in FollowRoutes}

FollowInit ==
    /\ config \in [enableGlobalMiddleware : {"true"},
                    permissions : {DefaultPermissions,
                                   [enabled |-> TRUE, mapping |-> NoMapping,
                                    transform |-> "none"]}]
    /\ \E u \in SessionUsers \cup {NoUser} :
          /\ currentUser = u
          /\ isAuthenticatedState = u.present
          /\ lastCall = CompletedCall("plugin", u, FALSE)
    /\ redirectCookie = <<>>
    /\ authCookies = CookiesSet
    /\ runs = [r \in RunIds |-> IdleRun]
    /\ ops = [o \in OpIds |-> IdleOp]
    /\ pending = <<>>
    /\ view = NoView
    /\ isLoading = FALSE
    /\ RealtimeIdle

FollowNavigate ==
    \E to \in FollowTargets, fromPath \in {loginPath, <<"/dashboard">>} :
        GuardEnter(1, to, fromPath)

FollowRevalidate == GuardCheckAuthStatus(1, currentUser)

FollowResume == GuardResume(1, FALSE)

FollowRedirect == \E to \in FollowTargets : RouterRedirects(1, to)

\* The navigation was allowed and the page is shown.
FollowSettle == runs[1].outcome = Allow /\ RouterSettle(1)

FollowNext ==
    FollowNavigate \/ FollowRevalidate \/ FollowResume \/ FollowRedirect \/ FollowSettle

\* The backend answers, the continuation of a settled await runs, and the
\* router acts on a redirect it was given.
FollowSpec ==
    /\ FollowInit
    /\ [][FollowNext]_vars
    /\ WF_vars(FollowRevalidate) /\ WF_vars(FollowResume) /\ WF_vars(FollowRedirect)

\* The realtime registry used by the components of a page: they subscribe,
\* unsubscribe, clean up, unmount and mount again, in any interleaving; the
\* session is left alone.
RealtimeInit ==
    /\ config \in [enableGlobalMiddleware : {"true"}, permissions : {DefaultPermissions}]
    /\ isAuthenticatedState = FALSE
    /\ currentUser = NoUser
    /\ lastCall = CompletedCall("plugin", NoUser, FALSE)
    /\ redirectCookie = <<>>
    /\ authCookies = CookiesCleared
    /\ runs = [r \in RunIds |-> IdleRun]
    /\ ops = [o \in OpIds |-> IdleOp]
    /\ pending = <<>>
    /\ view = NoView
    /\ isLoading = FALSE
    /\ RealtimeIdle

RealtimeSubscribe ==
    \E c \in CompIds, uid \in Uids, collection \in Collections, persistent \in BOOLEAN :
        subscribe(c, uid, collection, persistent)

RealtimeResolves == \E c \in CompIds : ClientSubscribeResolves(c)

RealtimeRejects == \E c \in CompIds : ClientSubscribeRejects(c)

RealtimeSettle == \E c \in CompIds : SubscribeSettle(c)

RealtimeUnsubscribe == \E c \in CompIds, id \in Uids, throws \in BOOLEAN : unsubscribe(c, id, throws)

RealtimeUnsubscribeCollection ==
    \E c \in CompIds, collection \in Collections, failing \in SUBSET Uids :
        unsubscribeCollection(c, collection, failing)

RealtimeUnsubscribeAll == \E c \in CompIds, failing \in SUBSET Uids : unsubscribeAll(c, failing)

RealtimeUnmount == \E c \in CompIds, failing \in SUBSET Uids : Unmount(c, failing)

RealtimeMount == \E c \in CompIds : Mount(c)

RealtimeNext ==
    \/ RealtimeSubscribe \/ RealtimeResolves \/ RealtimeRejects \/ RealtimeSettle
    \/ RealtimeUnsubscribe \/ RealtimeUnsubscribeCollection \/ RealtimeUnsubscribeAll
    \/ RealtimeUnmount \/ RealtimeMount

RealtimeSpec == RealtimeInit /\ [][RealtimeNext]_vars

\* The role pipeline as a function of its inputs: every permissions
\* configuration with every user record (or none).  The session stays as it
\* is: the backend returns the same record at every revalidation.  Components
\* read the composable's role values, and the user navigates to pages that
\* declare role lists, so the guard computes its own userRoles.
RolePermissions ==
    PermissionsConfigs
        \cup [enabled : {TRUE}, mapping : {NoMapping, RoleMapping}, transform : {"primary"}]
        \cup [enabled : {TRUE}, mapping : {MergingMapping}, transform : {"none"}]

\* User records whose role field holds the empty string, alone or first in an
\* array (a custom field left blank).
BlankRoleUsers ==
    {[present |-> TRUE, role |-> Str("")], [present |-> TRUE, role |-> Arr(<<"", "admin">>)]}

\* Role names a page or a component may ask for: the raw ones and the mapped one.
RoleNames == RawRoles \cup {"editor"}

RoleArgs == SeqsUpTo(RoleNames, MaxArgLen)

RolesTargets ==
    {t \in Targets : t.fullPath \in {<<"/admin">>, <<"/forum">>, <<"/staff">>}}

RolesInit ==
    /\ config \in [enableGlobalMiddleware : {"true"}, permissions : RolePermissions]
    /\ \E u \in Users \cup BlankRoleUsers \cup {NoUser} :
          /\ currentUser = u
          /\ isAuthenticatedState = u.present
          /\ lastCall = CompletedCall("plugin", u, FALSE)
    /\ redirectCookie = <<>>
    /\ authCookies = CookiesSet
    /\ runs = [r \in RunIds |-> IdleRun]
    /\ ops = [o \in OpIds |-> IdleOp]
    /\ pending = <<>>
    /\ view = NoView
    /\ isLoading = FALSE
    /\ RealtimeIdle

RolesNavigate == \E to \in RolesTargets : GuardEnter(1, to, <<"/dashboard">>)

RolesRevalidate == GuardCheckAuthStatus(1, currentUser)

RolesResume == GuardResume(1, FALSE)

RolesSettle == RouterSettle(1)

RolesRead ==
    \/ ReadUserRoles
    \/ ReadUserRolesAgain
    \/ ReadUserRole
    \/ \E role \in RoleNames : CallHasRole(role)
    \/ \E roles \in RoleArgs : CallHasAnyRole(roles) \/ CallHasAllRoles(roles) \/ CallIsNotRole(roles)

RolesNext ==
    RolesNavigate \/ RolesRevalidate \/ RolesResume \/ RolesSettle \/ RolesRead \/ DiscardView

RolesSpec == RolesInit /\ [][RolesNext]_vars

\* ------------------------------------------------------------------ claims

\* The spec's words, stated on a run's inputs and on the session and cookie
\* recorded around the step that ended it.
Done(r) == runs[r].pc = "done"

Exempt(r) ==
    StartsWith(runs[r].to.path, loginPath) \/ StartsWith(runs[r].to.path, registerPath)

DeclaredUnauthenticatedOnly(r) ==
    runs[r].to.meta.auth = "object" /\ runs[r].to.meta.unauthenticatedOnly

\* requires_auth as section 4.4 step 2 resolves it.
RequiresAuthByDeclaration(r) ==
    CASE runs[r].to.meta.auth = "false" -> FALSE
      [] runs[r].to.meta.auth \in {"true", "object"} -> TRUE
      [] OTHER -> config.enableGlobalMiddleware \in {"true", "undefined"}

\* C1: a guard run on a non-exempt target that requires authentication and is
\* not unauthenticated-only, with the session unauthenticated after the
\* revalidation, is never allowed: it redirects to navigateUnauthenticatedTo
\* when declared, else to loginPath, and the cookie then holds the requested
\* full path.
C1_UnauthenticatedRedirected ==
    \A r \in RunIds :
        (/\ Done(r)
         /\ ~Exempt(r)
         /\ RequiresAuthByDeclaration(r)
         /\ ~DeclaredUnauthenticatedOnly(r)
         /\ ~runs[r].post.authenticated)
        => /\ runs[r].checked
           /\ runs[r].outcome =
                 Redirect(IF Truthy(runs[r].to.meta.navigateUnauthenticatedTo)
                          THEN runs[r].to.meta.navigateUnauthenticatedTo
                          ELSE loginPath)
           /\ runs[r].post.cookie = runs[r].to.fullPath

\* An unauthenticated request for /members, which declares its own redirect,
\* while the cookie held another path: redirected there, cookie overwritten.
C1_Witness ==
    \E r \in RunIds :
        /\ Done(r)
        /\ runs[r].to.path = <<"/members">>
        /\ ~runs[r].post.authenticated
        /\ runs[r].pre.cookie = <<"/dashboard", "?tab=1">>
        /\ runs[r].outcome = Redirect(<<"/welcome">>)
        /\ redirectCookie = <<"/members">>

\* C2: on a page declared auth: false the guard allows, whatever the session,
\* without calling checkAuthStatus and without changing session or cookie.
C2_PublicAllowed ==
    \A r \in RunIds :
        (Done(r) /\ runs[r].to.meta.auth = "false")
        => /\ runs[r].outcome = Allow
           /\ ~runs[r].checked
           /\ runs[r].post = runs[r].pre

\* /about reached by an unauthenticated session while the global guard is on
C2_Witness ==
    \E r \in RunIds :
        /\ Done(r)
        /\ runs[r].to.path = <<"/about">>
        /\ config.enableGlobalMiddleware = "true"
        /\ ~runs[r].pre.authenticated
        /\ Truthy(runs[r].pre.cookie)
        /\ runs[r].outcome = Allow

C4_RequirementResolution ==
    \A r \in RunIds :
        (runs[r].pc # "idle" /\ ~Exempt(r))
        => /\ runs[r].to.meta.auth = "false" => ~runs[r].checked
           /\ runs[r].to.meta.auth \in {"true", "object"} => runs[r].checked
           /\ (runs[r].to.meta.auth = "undefined" /\ config.enableGlobalMiddleware = "true")
                 => runs[r].checked
           /\ (runs[r].to.meta.auth = "undefined" /\ config.enableGlobalMiddleware = "false")
                 => ~runs[r].checked
           /\ (runs[r].to.meta.auth = "undefined" /\ config.enableGlobalMiddleware = "undefined")
                 => runs[r].checked

\* An unauthenticated-only page is revalidated with the global guard off, and
\* a page with no declaration is revalidated when the option is not set.
C4_Witness ==
    \E r \in RunIds :
        /\ runs[r].pc = "awaiting"
        /\ \/ /\ DeclaredUnauthenticatedOnly(r)
              /\ ~Exempt(r)
              /\ config.enableGlobalMiddleware = "false"
           \/ /\ runs[r].to.meta.auth = "undefined"
              /\ config.enableGlobalMiddleware = "undefined"

\* The first half of the round trip: an unauthenticated request for a
\* protected page that declares no redirect of its own goes to loginPath and
\* is remembered; and the cookie only ever holds such a request.
RememberedOnDenial ==
    /\ \A r \in RunIds :
          (/\ Done(r)
           /\ ~Exempt(r)
           /\ RequiresAuthByDeclaration(r)
           /\ ~DeclaredUnauthenticatedOnly(r)
           /\ ~Truthy(runs[r].to.meta.navigateUnauthenticatedTo)
           /\ ~runs[r].post.authenticated)
          => /\ runs[r].outcome = Redirect(loginPath)
             /\ runs[r].post.cookie = runs[r].to.fullPath
    /\ Truthy(redirectCookie)
          => \E t \in Targets :
                /\ redirectCookie = t.fullPath
                /\ ~IsAuthPage(t.path)
                /\ t.meta.auth # "false"
                /\ ~t.meta.unauthenticatedOnly

\* An authenticated navigation from loginPath while the cookie holds P.
ReturnsFromLogin(r) ==
    /\ Done(r)
    /\ runs[r].from = loginPath
    /\ runs[r].post.authenticated
    /\ Truthy(runs[r].pre.cookie)

\* C5 as stated: the round trip ends with Redirect(P) and an empty cookie for
\* a navigation from loginPath to any path.
C5_RoundTripAnyTarget ==
    /\ RememberedOnDenial
    /\ \A r \in RunIds :
          ReturnsFromLogin(r)
          => /\ runs[r].outcome = Redirect(runs[r].pre.cookie)
             /\ runs[r].post.cookie = <<>>

\* C5 as amended: the round trip ends with Redirect(P) and an empty cookie
\* when the navigation from loginPath goes to a non-exempt page declared
\* unauthenticatedOnly.
C5_RoundTripGuestTarget ==
    /\ RememberedOnDenial
    /\ \A r \in RunIds :
          (ReturnsFromLogin(r) /\ ~Exempt(r) /\ DeclaredUnauthenticatedOnly(r))
          => /\ runs[r].outcome = Redirect(runs[r].pre.cookie)
             /\ runs[r].post.cookie = <<>>

\* /dashboard?tab=1 was remembered; the authenticated navigation from the
\* login page to /welcome is redirected to it and the cookie is empty.
C5_Witness ==
    \E r \in RunIds :
        /\ ReturnsFromLogin(r)
        /\ runs[r].to.path = <<"/welcome">>
        /\ runs[r].pre.cookie = <<"/dashboard", "?tab=1">>
        /\ runs[r].outcome = Redirect(<<"/dashboard", "?tab=1">>)
        /\ redirectCookie = <<>>

\* C6: an authenticated user who navigates to the login page, declared
\* unauthenticatedOnly, is redirected away: to the remembered path when the
\* cookie is set and the previous path was login/register, otherwise to
\* navigateAuthenticatedTo or afterLoginPath.
C6_LoginPageRedirectsAuthenticated ==
    \A r \in RunIds :
        (/\ Done(r)
         /\ runs[r].to.path = loginPath
         /\ DeclaredUnauthenticatedOnly(r)
         /\ runs[r].post.authenticated)
        => runs[r].outcome =
              Redirect(IF Truthy(runs[r].pre.cookie) /\ IsAuthPage(runs[r].from)
                       THEN runs[r].pre.cookie
                       ELSE IF Truthy(runs[r].to.meta.navigateAuthenticatedTo)
                       THEN runs[r].to.meta.navigateAuthenticatedTo
                       ELSE afterLoginPath)

\* C7: an authenticated session on a non-exempt unauthenticatedOnly page is
\* always redirected: to the remembered path, and the cookie is cleared,
\* exactly when the cookie is set and the previous path starts with loginPath
\* or registerPath; otherwise to navigateAuthenticatedTo when declared, else
\* to afterLoginPath, and the cookie is as before.
C7_GuestPageRedirectsAuthenticated ==
    \A r \in RunIds :
        (/\ Done(r)
         /\ ~Exempt(r)
         /\ DeclaredUnauthenticatedOnly(r)
         /\ runs[r].post.authenticated)
        => LET recalled ==
                  /\ Truthy(runs[r].pre.cookie)
                  /\ \/ StartsWith(runs[r].from, loginPath)
                     \/ StartsWith(runs[r].from, registerPath)
           IN  /\ runs[r].outcome =
                     Redirect(IF recalled THEN runs[r].pre.cookie
                              ELSE IF Truthy(runs[r].to.meta.navigateAuthenticatedTo)
                              THEN runs[r].to.meta.navigateAuthenticatedTo
                              ELSE afterLoginPath)
               /\ runs[r].post.cookie = IF recalled THEN <<>> ELSE runs[r].pre.cookie

\* Coming from /dashboard with a remembered path, the authenticated user is
\* sent from /landing to its navigateAuthenticatedTo and the cookie stays.
C7_Witness ==
    \E r \in RunIds :
        /\ Done(r)
        /\ runs[r].to.path = <<"/landing">>
        /\ runs[r].from = <<"/dashboard">>
        /\ runs[r].post.authenticated
        /\ runs[r].pre.cookie = <<"/admin">>
        /\ runs[r].outcome = Redirect(<<"/dashboard">>)
        /\ redirectCookie = <<"/admin">>

\* C8: an unauthenticated session (after revalidation) on a non-exempt
\* unauthenticatedOnly page is allowed and the cookie is not written.
C8_GuestPageAllowsUnauthenticated ==
    \A r \in RunIds :
        (/\ Done(r)
         /\ ~Exempt(r)
         /\ DeclaredUnauthenticatedOnly(r)
         /\ ~runs[r].post.authenticated)
        => /\ runs[r].checked
           /\ runs[r].outcome = Allow
           /\ runs[r].post.cookie = runs[r].pre.cookie

\* The session was authenticated before the run, the revalidation failed, and
\* /welcome is allowed.
C8_Witness ==
    \E r \in RunIds :
        /\ Done(r)
        /\ runs[r].to.path = <<"/welcome">>
        /\ runs[r].checked
        /\ runs[r].me = NoUser
        /\ ~runs[r].post.authenticated
        /\ runs[r].outcome = Allow

\* The user of a run: authenticated, with a user record, permissions enabled.
AuthenticatedWithRoles(r) ==
    /\ Done(r)
    /\ config.permissions.enabled
    /\ runs[r].post.authenticated
    /\ runs[r].post.user.present

RoleSet(r) == GuardUserRoles(runs[r].post.user, config.permissions)

Intersects(xs, ys) == \E i \in 1..Len(xs) : \E j \in 1..Len(ys) : xs[i] = ys[j]

UnauthorizedTarget(r) ==
    IF Truthy(runs[r].to.meta.unauthorizedRedirect)
    THEN runs[r].to.meta.unauthorizedRedirect
    ELSE <<"/">>

AllowListHolds(r) ==
    /\ runs[r].outcome = Allow => Intersects(RoleSet(r), runs[r].to.meta.roles.list)
    /\ ~Intersects(RoleSet(r), runs[r].to.meta.roles.list)
          => runs[r].outcome = Redirect(UnauthorizedTarget(r))

\* C9 as stated: on every route with a non-empty roles list an authenticated
\* user is allowed only if the RoleSet meets roles, and is otherwise sent to
\* unauthorizedRedirect or "/".
C9_AllowListEveryRoute ==
    \A r \in RunIds :
        (AuthenticatedWithRoles(r) /\ Len(runs[r].to.meta.roles.list) > 0)
        => AllowListHolds(r)

\* C9 as amended: the same on every route with a non-empty roles list that is
\* not exempt (login/register prefix) and not unauthenticatedOnly.
C9_AllowList ==
    \A r \in RunIds :
        (/\ AuthenticatedWithRoles(r)
         /\ Len(runs[r].to.meta.roles.list) > 0
         /\ ~Exempt(r)
         /\ ~DeclaredUnauthenticatedOnly(r))
        => AllowListHolds(r)

\* A user whose raw role x maps to editor is allowed on /admin, and a user
\* with no roles at all is sent to "/".
C9_Witness ==
    \E r \in RunIds :
        /\ AuthenticatedWithRoles(r)
        /\ runs[r].to.path = <<"/admin">>
        /\ \/ /\ runs[r].post.user.role = Arr(<<"banned", "x">>)
              /\ RoleSet(r) = <<"banned", "editor">>
              /\ runs[r].outcome = Allow
           \/ /\ RoleSet(r) = <<>>
              /\ runs[r].outcome = Redirect(<<"/">>)

DenyListHolds(r) ==
    runs[r].outcome =
        IF Intersects(RoleSet(r), runs[r].to.meta.excludeRoles.list)
        THEN Redirect(UnauthorizedTarget(r))
        ELSE Allow

\* C10 as stated: on every route with a non-empty excludeRoles and no roles
\* list an authenticated user is sent to unauthorizedRedirect or "/" when the
\* RoleSet meets excludeRoles, and is allowed otherwise.
C10_DenyListEveryRoute ==
    \A r \in RunIds :
        (/\ AuthenticatedWithRoles(r)
         /\ ~runs[r].to.meta.roles.declared
         /\ Len(runs[r].to.meta.excludeRoles.list) > 0)
        => DenyListHolds(r)

\* C10 as amended: the same on every such route that is not exempt and not
\* unauthenticatedOnly.
C10_DenyList ==
    \A r \in RunIds :
        (/\ AuthenticatedWithRoles(r)
         /\ ~runs[r].to.meta.roles.declared
         /\ Len(runs[r].to.meta.excludeRoles.list) > 0
         /\ ~Exempt(r)
         /\ ~DeclaredUnauthenticatedOnly(r))
        => DenyListHolds(r)

\* A user with roles admin and banned is kept out of /forum.
C10_Witness ==
    \E r \in RunIds :
        /\ AuthenticatedWithRoles(r)
        /\ runs[r].to.path = <<"/forum">>
        /\ RoleSet(r) = <<"admin", "banned">>
        /\ runs[r].outcome = Redirect(<<"/">>)

\* A run by an authenticated user on a page that declares both lists non-empty.
BothListsDeclared(r) ==
    /\ AuthenticatedWithRoles(r)
    /\ Len(runs[r].to.meta.roles.list) > 0
    /\ Len(runs[r].to.meta.excludeRoles.list) > 0

\* C11 as stated: when a page declares both a non-empty roles and a non-empty
\* excludeRoles, only roles is evaluated: a user whose RoleSet meets roles is
\* allowed even when the RoleSet also meets excludeRoles.
C11_AllowListExclusive ==
    \A r \in RunIds :
        (BothListsDeclared(r) /\ Intersects(RoleSet(r), runs[r].to.meta.roles.list))
        => runs[r].outcome = Allow

\* C11 as amended: on a non-exempt page, not unauthenticatedOnly, that declares
\* both lists non-empty, both are evaluated: the user is allowed exactly when
\* the RoleSet meets roles and does not meet excludeRoles, and is otherwise
\* sent to unauthorizedRedirect or "/".
C11_BothListsEvaluated ==
    \A r \in RunIds :
        (BothListsDeclared(r) /\ ~Exempt(r) /\ ~DeclaredUnauthenticatedOnly(r))
        => runs[r].outcome =
              IF /\ Intersects(RoleSet(r), runs[r].to.meta.roles.list)
                 /\ ~Intersects(RoleSet(r), runs[r].to.meta.excludeRoles.list)
              THEN Allow
              ELSE Redirect(UnauthorizedTarget(r))

\* /staff declares roles [admin] and excludeRoles [admin]: an admin is sent
\* to "/".
C11_Witness ==
    \E r \in RunIds :
        /\ BothListsDeclared(r)
        /\ runs[r].to.path = <<"/staff">>
        /\ RoleSet(r) = <<"admin">>
        /\ runs[r].branch = "role-excluded"
        /\ runs[r].outcome = Redirect(<<"/">>)

\* A run by an authenticated user, permissions disabled, on a page that
\* declares roles or excludeRoles.
RolesDeclaredWhileDisabled(r) ==
    /\ Done(r)
    /\ ~config.permissions.enabled
    /\ runs[r].post.authenticated
    /\ runs[r].to.meta.roles.declared \/ runs[r].to.meta.excludeRoles.declared

\* C12 as stated: with permissions.enabled false every authenticated
\* navigation to a page that declares roles or excludeRoles is allowed,
\* whatever the user record.
C12_DisabledAllowsEveryRoute ==
    \A r \in RunIds : RolesDeclaredWhileDisabled(r) => runs[r].outcome = Allow

\* C12 as amended: with permissions.enabled false every authenticated
\* navigation to a page that declares roles or excludeRoles and is not
\* unauthenticatedOnly is allowed, whatever the user record, and the run
\* ends by the plain return, not by the catch block.
C12_DisabledIgnoresRoles ==
    \A r \in RunIds :
        (RolesDeclaredWhileDisabled(r) /\ ~DeclaredUnauthenticatedOnly(r))
        => /\ runs[r].outcome = Allow
           /\ runs[r].branch \in {"auth-page", "allowed"}
           /\ runs[r].post.cookie = runs[r].pre.cookie

\* Permissions are disabled (a raising transform is still configured); a
\* banned user is allowed on /forum, which excludes banned.
C12_Witness ==
    \E r \in RunIds :
        /\ RolesDeclaredWhileDisabled(r)
        /\ config.permissions.transform = "throws"
        /\ runs[r].to.path = <<"/forum">>
        /\ runs[r].post.user.role = Str("banned")
        /\ runs[r].branch = "allowed"
        /\ runs[r].outcome = Allow

\* C13: in every reachable state, under any interleaving of the calls of
\* checkAuthStatus made by the plugin, guard runs, login, logout, fetchUser
\* and refreshToken, the session is authenticated exactly when the user
\* record is present, and a present user record is the one returned by the
\* call that completed last, which succeeded.
C13_SessionInvariant ==
    /\ isAuthenticatedState <=> currentUser.present
    /\ currentUser.present
          => /\ lastCall.caller # "none"
             /\ lastCall.me = currentUser
             /\ lastCall.returned = ReturnedUser(currentUser)

\* login's call was started before a call that completed first, completed
\* last with the admin's record, and a guard run's call is still in flight.
C13_Witness ==
    /\ lastCall.caller = "login"
    /\ lastCall.overtaken
    /\ currentUser = [present |-> TRUE, role |-> Str("admin")]
    /\ isAuthenticatedState
    /\ \E i \in 1..Len(pending) : pending[i].caller = "guard"

\* C14: when the backend's readMe request fails, checkAuthStatus sets the
\* session unauthenticated and the user record null together, returns false,
\* and does not throw: the guard run that made the call does not enter its
\* catch block and the operation that made the call does not reject.
C14_FailureIsAValue ==
    /\ lastCall.returned # Thrown
    /\ (lastCall.caller # "none" /\ ~lastCall.me.present)
          => /\ ~isAuthenticatedState
             /\ currentUser = NoUser
             /\ lastCall.returned = ReturnedFalse
    /\ \A r \in RunIds :
          (Done(r) /\ runs[r].checked /\ ~runs[r].me.present) => runs[r].branch # "error"
    /\ \A o \in OpIds :
          (ops[o].pc \in {"resolved", "done"} /\ ops[o].kind \in {"fetchUser", "logout", "plugin"})
          => ~ops[o].threw

\* A guard run ended with the session authenticated; then the readMe request
\* of another run failed: the session is unauthenticated, the user record is
\* null, and that run goes on.
C14_Witness ==
    /\ lastCall.caller = "guard"
    /\ lastCall.me = NoUser
    /\ lastCall.returned = ReturnedFalse
    /\ ~isAuthenticatedState
    /\ currentUser = NoUser
    /\ \E r1, r2 \in RunIds :
          /\ Done(r1) /\ runs[r1].post.authenticated
          /\ runs[r2].pc = "resolved" /\ runs[r2].me = NoUser

\* C15: when calls of checkAuthStatus overlap, once all of them have completed
\* the session (flag and user record) is the result of the call that
\* completed last, whether that call was started before or after the others.
C15_LastCompletedWins ==
    (pending = <<>> /\ lastCall.caller # "none")
    => /\ isAuthenticatedState = lastCall.me.present
       /\ currentUser = lastCall.me

\* fetchUser's call was started first and completed last, after the call of
\* a guard run that got the other account: the session holds fetchUser's
\* result.
C15_Witness ==
    /\ pending = <<>>
    /\ lastCall.caller = "fetchUser"
    /\ lastCall.overtaken
    /\ lastCall.me = [present |-> TRUE, role |-> Str("x")]
    /\ currentUser = [present |-> TRUE, role |-> Str("x")]
    /\ isAuthenticatedState
    /\ \E r \in RunIds :
          runs[r].pc = "resolved" /\ runs[r].me = [present |-> TRUE, role |-> Str("admin")]

\* What a run does for an unauthenticated session: allowed on an
\* unauthenticatedOnly page; otherwise the target is remembered and the run
\* redirects to navigateUnauthenticatedTo when declared, else to loginPath.
\* The run did not go through its catch block.
ActsAsUnauthenticated(r) ==
    /\ runs[r].branch # "error"
    /\ IF DeclaredUnauthenticatedOnly(r)
       THEN /\ runs[r].outcome = Allow
            /\ runs[r].post.cookie = runs[r].pre.cookie
       ELSE /\ runs[r].outcome =
                  Redirect(IF Truthy(runs[r].to.meta.navigateUnauthenticatedTo)
                           THEN runs[r].to.meta.navigateUnauthenticatedTo
                           ELSE loginPath)
            /\ runs[r].post.cookie = runs[r].to.fullPath

\* A run on a non-exempt page that requires authentication whose own call of
\* checkAuthStatus failed.
RevalidationFailed(r) ==
    /\ Done(r)
    /\ ~Exempt(r)
    /\ RequiresAuthByDeclaration(r)
    /\ runs[r].checked
    /\ ~runs[r].me.present

ProtectedRun(r) == Done(r) /\ ~Exempt(r) /\ RequiresAuthByDeclaration(r)

\* The session flag was true when the run began, the run's own revalidation
\* found the backend session invalid, and the page is not unauthenticatedOnly.
StaleFlag(r) ==
    /\ ProtectedRun(r)
    /\ runs[r].cached
    /\ ~runs[r].me.present
    /\ ~DeclaredUnauthenticatedOnly(r)

RoleSetOf(value, mapping) ==
    LET normalised == CASE value.t = "array" -> value.a
                        [] value.t = "string" -> <<value.s>>
                        [] OTHER -> <<>>
    IN  [i \in 1..Len(normalised) |->
            IF mapping.defined /\ normalised[i] \in mapping.keys
               /\ mapping.val[normalised[i]] # ""
            THEN mapping.val[normalised[i]]
            ELSE normalised[i]]

\* The outcome of a run on a role-restricted page for a user with RoleSet rs.
RoleOutcome(r, rs) ==
    IF /\ Len(runs[r].to.meta.roles.list) > 0 => Intersects(rs, runs[r].to.meta.roles.list)
       /\ Len(runs[r].to.meta.excludeRoles.list) > 0
             => ~Intersects(rs, runs[r].to.meta.excludeRoles.list)
    THEN Allow
    ELSE Redirect(UnauthorizedTarget(r))

\* Permissions are enabled, a user is present, and the configured transform
\* raises for that user's raw field value.
TransformRaises ==
    /\ config.permissions.enabled
    /\ currentUser.present
    /\ \/ config.permissions.transform = "throws"
       \/ config.permissions.transform = "split" /\ currentUser.role.t # "string"

\* C18: when the transform raises for the user's raw value x, userRoles is
\* the RoleSet of x itself (normalised and mapped; [x] for a scalar without a
\* mapping), the guard decides with that same RoleSet, and the guard run ends
\* by a plain return or redirect, not in its catch block.
C18_TransformFaultIsolated ==
    TransformRaises
    => LET raw == RoleSetOf(currentUser.role, config.permissions.mapping)
       IN  /\ view.fn = "userRoles" => view.roles = raw
           /\ (view.fn = "userRoles" /\ currentUser.role.t = "string"
                  /\ ~config.permissions.mapping.defined)
                 => view.roles = <<currentUser.role.s>>
           /\ \A r \in RunIds :
                 Done(r) => /\ runs[r].branch \in {"allowed", "role-missing", "role-excluded"}
                            /\ runs[r].outcome = RoleOutcome(r, raw)

\* The transform always raises and x maps to editor: for the user whose raw
\* role is x, userRoles is [editor] and the guard allows /admin.
C18_Witness ==
    /\ config.permissions.transform = "throws"
    /\ config.permissions.mapping = RoleMapping
    /\ currentUser.role = Str("x")
    /\ view.fn = "userRoles"
    /\ view.roles = <<"editor">>
    /\ \E r \in RunIds :
          Done(r) /\ runs[r].to.path = <<"/admin">> /\ runs[r].outcome = Allow

\* C19: with permissions.enabled false, or with no user present, userRoles is
\* empty whatever the user record, the transform and the mapping; hasRole and
\* hasAnyRole are false and isNotRole is true for every argument, and
\* userRole is null.
C19_NoRolesWhenDisabledOrAnonymous ==
    (~config.permissions.enabled \/ ~currentUser.present)
    => /\ view.fn = "userRoles" => view.roles = <<>>
       /\ view.fn = "userRole" => view.role = Null
       /\ view.fn = "hasRole" => ~view.truth
       /\ view.fn = "hasAnyRole" => ~view.truth
       /\ view.fn = "isNotRole" => view.truth

\* Permissions are disabled while a mapping and a transform are configured;
\* for a user whose record carries admin, isNotRole([admin]) is true.
C19_Witness ==
    /\ ~config.permissions.enabled
    /\ config.permissions.mapping = RoleMapping
    /\ currentUser.role = Arr(<<"admin", "x">>)
    /\ view.fn = "isNotRole"
    /\ view.arg = <<"admin">>
    /\ view.truth

\* The field value after the configured transform, for the transforms of
\* RoleTransforms: the raw value when none is configured or it raises.
PostTransform ==
    LET value == currentUser.role
    IN  CASE config.permissions.transform = "split" /\ value.t = "string" -> Arr(<<value.s>>)
          [] config.permissions.transform = "primary" /\ value.t = "array" ->
                IF Len(value.a) > 0 THEN Str(value.a[1]) ELSE Undefined
          [] OTHER -> value

Normalised ==
    CASE PostTransform.t = "array" -> PostTransform.a
      [] PostTransform.t = "string" -> <<PostTransform.s>>
      [] OTHER -> <<>>

\* Roles are resolved: permissions are enabled and a user is present.
Resolving == config.permissions.enabled /\ currentUser.present

\* The normalised sequence with every element that has a mapping entry
\* replaced by the entry's value, whatever the value.
EveryEntryApplied ==
    [i \in 1..Len(Normalised) |->
        IF config.permissions.mapping.defined
           /\ Normalised[i] \in config.permissions.mapping.keys
        THEN config.permissions.mapping.val[Normalised[i]]
        ELSE Normalised[i]]

\* C21: when a mapping is configured, every element of the normalised
\* sequence that has a mapping entry is replaced by its mapped value, whatever
\* that value is, and every element without an entry is left unchanged, in
\* userRoles and in the guard's decision alike.
C21_MappingReplacesEveryEntry ==
    Resolving
    => /\ view.fn = "userRoles" => view.roles = EveryEntryApplied
       /\ \A r \in RunIds : Done(r) => runs[r].outcome = RoleOutcome(r, EveryEntryApplied)

\* C22: the resolved RoleSet has the length of the normalised sequence and
\* its i-th element comes from the i-th normalised element (itself or its
\* mapping entry); repeated roles are kept, also when two different raw
\* values map to one name.
C22_OrderAndRepeatsKept ==
    (Resolving /\ view.fn = "userRoles")
    => /\ Len(view.roles) = Len(Normalised)
       /\ \A i \in 1..Len(Normalised) :
             \/ view.roles[i] = Normalised[i]
             \/ /\ config.permissions.mapping.defined
                /\ Normalised[i] \in config.permissions.mapping.keys
                /\ view.roles[i] = config.permissions.mapping.val[Normalised[i]]

\* x and admin both map to editor: for the record [x, admin] userRoles is
\* [editor, editor].
C22_Witness ==
    /\ config.permissions.mapping = MergingMapping
    /\ currentUser.role = Arr(<<"x", "admin">>)
    /\ view.fn = "userRoles"
    /\ view.roles = <<"editor", "editor">>

ResolvedRoleSet ==
    IF Resolving THEN RoleSetOf(PostTransform, config.permissions.mapping) ELSE <<>>

\* C24: userRole is the first element of userRoles whenever userRoles is
\* non-empty, and null exactly when userRoles is empty.
C24_PrimaryRoleIsFirst ==
    view.fn = "userRole"
    => /\ Len(ResolvedRoleSet) > 0 => view.role = Str(ResolvedRoleSet[1])
       /\ view.role = Null <=> Len(ResolvedRoleSet) = 0

\* role is an element of the current user's RoleSet.
InRoleSet(role) == \E i \in 1..Len(ResolvedRoleSet) : ResolvedRoleSet[i] = role

\* C25: for every RoleSet and every argument list R, hasAnyRole(R) is true
\* iff some element of R is in the RoleSet; hasAllRoles(R) iff every element
\* of R is (so true for the empty R); isNotRole(R) is the negation of
\* hasAnyRole(R); and hasRole(r) equals hasAnyRole([r]).
C25_RoleHelperLaws ==
    /\ view.fn = "hasAnyRole"
          => (view.truth <=> \E j \in 1..Len(view.arg) : InRoleSet(view.arg[j]))
    /\ view.fn = "hasAllRoles"
          => (view.truth <=> \A j \in 1..Len(view.arg) : InRoleSet(view.arg[j]))
    /\ view.fn = "isNotRole"
          => /\ view.truth <=> ~(\E j \in 1..Len(view.arg) : InRoleSet(view.arg[j]))
             /\ view.truth <=> ~hasAnyRole(currentUser, config.permissions, view.arg)
    /\ view.fn = "hasRole"
          => /\ view.truth <=> InRoleSet(view.arg[1])
             /\ view.truth <=> hasAnyRole(currentUser, config.permissions, view.arg)

\* The record [x, admin] with x mapped to editor: hasAllRoles([admin, editor])
\* is true.
C25_Witness ==
    /\ config.permissions.mapping = RoleMapping
    /\ config.permissions.transform = "none"
    /\ currentUser.role = Arr(<<"x", "admin">>)
    /\ view.fn = "hasAllRoles"
    /\ view.arg = <<"admin", "editor">>
    /\ view.truth

\* A finished guard run of the navigation that login asked for, to a
\* protected page without a role restriction, with the session valid, and no
\* call in the guard having raised.
LoginArrival(run) ==
    /\ run.pc = "done"
    /\ run.by = "login"
    /\ run.post.authenticated
    /\ run.branch # "error"
    /\ ~(StartsWith(run.to.path, loginPath) \/ StartsWith(run.to.path, registerPath))
    /\ ~(run.to.meta.auth = "object" /\ run.to.meta.unauthenticatedOnly)
    /\ ~(config.permissions.enabled
            /\ (run.to.meta.roles.declared \/ run.to.meta.excludeRoles.declared))

\* C26: a guard run that denies an unauthenticated request for a protected
\* page P leaves P in the cookie; when login() continues after a successful
\* sign-in it navigates to the remembered destination if the cookie is
\* non-empty and to afterLoginPath otherwise, and the cookie is empty
\* afterwards; the navigation the router then starts is to that path; and
\* when it is to a protected page P without role restriction and the session
\* is valid, the guard allows it and leaves the cookie empty: no second
\* detour.
C26_LoginReturnsToRemembered ==
    [][/\ \A r \in RunIds :
             (/\ runs[r].pc = "resolved" /\ runs'[r].pc = "done"
              /\ ~isAuthenticatedState
              /\ ~(runs[r].to.meta.auth = "object" /\ runs[r].to.meta.unauthenticatedOnly))
             => /\ redirectCookie' = runs[r].to.fullPath
                /\ runs'[r].outcome.kind = "redirect"
       /\ \A o \in OpIds :
             (ops[o].kind = "login" /\ ops[o].pc = "resolved" /\ ops'[o].pc # "resolved")
             => /\ ops'[o].navigatedTo =
                      IF redirectCookie # <<>> THEN redirectCookie ELSE afterLoginPath
                /\ redirectCookie' = <<>>
                /\ ~ops'[o].threw
       /\ \A o \in OpIds :
             (ops[o].kind = "login" /\ ops[o].pc = "navigating" /\ ops'[o].pc = "routing")
             => /\ runs'[ops'[o].run].by = "login"
                /\ runs'[ops'[o].run].to.fullPath = ops[o].navigatedTo
       /\ \A r \in RunIds :
             LoginArrival(runs'[r])
             => /\ runs'[r].outcome = Allow
                /\ runs'[r].post.cookie = <<>>]_vars

\* /dashboard?tab=1 was remembered; login navigated there, the session is
\* valid, the guard allowed it and the cookie is empty.
C26_Witness ==
    \E o \in OpIds :
        /\ ops[o].kind = "login"
        /\ ops[o].pc = "routing"
        /\ ops[o].navigatedTo = <<"/dashboard", "?tab=1">>
        /\ LoginArrival(runs[ops[o].run])
        /\ runs[ops[o].run].to.fullPath = <<"/dashboard", "?tab=1">>
        /\ runs[ops[o].run].outcome = Allow
        /\ redirectCookie = <<>>

\* C27: logout() completes its cleanup whether or not the server-side call
\* failed (error set or not): once that call has settled both token cookies
\* are null and the session is revalidated by logout's own call; the
\* navigation is to afterLogoutPath; and when logout has returned isLoading
\* is false and nothing was thrown to the caller.
C27_LogoutCleansUp ==
    \A o \in OpIds :
        ops[o].kind = "logout"
        => /\ ops[o].pc \in {"awaiting", "resolved", "navigating", "routing", "done"}
                 => authCookies = CookiesCleared
           /\ ops[o].pc \in {"resolved", "navigating", "routing", "done"}
                 => lastCall.caller = "logout"
           /\ ops[o].pc \in {"navigating", "routing", "done"}
                 => ops[o].navigatedTo = afterLogoutPath
           /\ ops[o].pc = "routing"
                 => /\ runs[ops[o].run].by = "logout"
                    /\ runs[ops[o].run].to.fullPath = afterLogoutPath
           /\ ops[o].pc = "done" => ~isLoading /\ ~ops[o].threw

\* The server-side logout failed and the backend still accepts the session:
\* the cookies are cleared, the revalidation found the user, logout went to
\* afterLogoutPath and returned with isLoading false.
C27_Witness ==
    \E o \in OpIds :
        /\ ops[o].kind = "logout"
        /\ ops[o].pc = "done"
        /\ ops[o].error
        /\ ops[o].navigatedTo = afterLogoutPath
        /\ ~isLoading
        /\ authCookies = CookiesCleared
        /\ lastCall.caller = "logout"
        /\ isAuthenticatedState

\* path begins with prefix, atom by atom.
HasPrefix(path, prefix) ==
    /\ Len(prefix) <= Len(path)
    /\ \A i \in 1..Len(prefix) : path[i] = prefix[i]

\* C28: in every reachable state, after any sequence of guard runs, logins
\* and logouts, the redirect cookie never holds a path that starts with
\* loginPath or registerPath.
C28_NeverRemembersAuthPages ==
    ~HasPrefix(redirectCookie, loginPath) /\ ~HasPrefix(redirectCookie, registerPath)

\* /members is remembered; an unauthenticated navigation to /auth/login/help,
\* a page under the login path that declares roles, has returned and the
\* cookie still holds /members; so it does after logout's navigation to the
\* login page.
C28_Witness ==
    /\ redirectCookie = <<"/members">>
    /\ ~isAuthenticatedState
    /\ \E r \in RunIds :
          /\ Done(r)
          /\ \/ runs[r].by = "user" /\ runs[r].to.path = loginPath \o <<"/help">>
             \/ runs[r].by = "logout" /\ runs[r].to.path = loginPath

\* C29: overlapping guard runs are neither serialized nor cancelled.  Every
\* run, superseded or not, applies its writes when it resolves: its call of
\* checkAuthStatus writes the session with what it got, and when the run then
\* finds the session unauthenticated on a page that is not
\* unauthenticatedOnly it writes its own target into the cookie and returns a
\* redirect; so the cookie holds the target of the run that wrote last.
C29_SupersededRunsStillWrite ==
    [][\A r \in RunIds :
          /\ (runs[r].pc = "awaiting" /\ runs'[r].pc = "resolved")
                => /\ isAuthenticatedState' = runs'[r].me.present
                   /\ currentUser' = runs'[r].me
          /\ (/\ runs[r].pc = "resolved" /\ runs'[r].pc = "done"
              /\ ~isAuthenticatedState
              /\ ~(runs[r].to.meta.auth = "object" /\ runs[r].to.meta.unauthenticatedOnly))
                => /\ redirectCookie' = runs[r].to.fullPath
                   /\ runs'[r].outcome.kind = "redirect"]_vars

\* Navigation A to /dashboard was superseded by navigation B to /members
\* while A's revalidation was pending; B's run wrote /members first, then A's
\* run resolved and wrote /dashboard: the cookie holds A's target.
C29_Witness ==
    \E a, b \in RunIds :
        /\ Done(a) /\ Done(b)
        /\ runs[a].superseded /\ ~runs[b].superseded
        /\ runs[a].to.fullPath = <<"/dashboard">>
        /\ runs[b].to.fullPath = <<"/members">>
        /\ runs[b].post.cookie = <<"/members">>
        /\ runs[a].pre.cookie = <<"/members">>
        /\ redirectCookie = <<"/dashboard">>

\* The four outcomes of section 4.4, told apart by the branch the handler
\* returned from and by where the redirect leads.
OutcomeAllow(run) ==
    run.branch \in {"allowed", "guest-allowed"} /\ run.outcome = Allow

OutcomeToLogin(run) ==
    /\ run.branch \in {"to-login", "error"}
    /\ run.outcome \in {Redirect(loginPath), Redirect(run.to.meta.navigateUnauthenticatedTo)}

OutcomeToIntended(run) ==
    /\ run.branch \in {"stored-redirect", "away"}
    /\ run.outcome \in {Redirect(run.pre.cookie), Redirect(afterLoginPath),
                         Redirect(run.to.meta.navigateAuthenticatedTo)}

OutcomeToUnauthorized(run) ==
    /\ run.branch \in {"role-missing", "role-excluded"}
    /\ run.outcome \in {Redirect(<<"/">>), Redirect(run.to.meta.unauthorizedRedirect)}

OutcomesOf(run) ==
    {k \in {"allow", "login", "intended", "unauthorized"} :
        CASE k = "allow" -> OutcomeAllow(run)
          [] k = "login" -> OutcomeToLogin(run)
          [] k = "intended" -> OutcomeToIntended(run)
          [] OTHER -> OutcomeToUnauthorized(run)}

\* C30: a guard run whose revalidation call has returned terminates, with
\* exactly one of the four outcomes (allow, redirect to login, redirect to the
\* intended destination, redirect to the unauthorized target); while the call
\* has not returned the run has no outcome, and it leaves the await only by
\* the call returning: there is no timeout.
C30_RunsEndInOneOutcome ==
    /\ \A r \in RunIds :
          (runs[r].pc = "resolved")
             ~> (Done(r) /\ runs[r].checked /\ Cardinality(OutcomesOf(runs[r])) = 1)
    /\ [](\A r \in RunIds :
            /\ runs[r].pc \in {"awaiting", "resolved"} => runs[r].outcome = NoOutcome
            /\ (Done(r) /\ runs[r].checked)
                  => /\ Cardinality(OutcomesOf(runs[r])) = 1
                     /\ runs[r].outcome.kind \in {"allow", "redirect"})
    /\ [][\A r \in RunIds :
            (runs[r].pc = "awaiting" /\ runs'[r].pc # "awaiting")
               => /\ runs'[r].pc = "resolved"
                  /\ \E i \in DOMAIN pending :
                        pending[i].caller = "guard" /\ pending[i].id = r
                  /\ ~\E i \in DOMAIN pending' :
                        pending'[i].caller = "guard" /\ pending'[i].id = r]_vars

\* The backend answered the request of a navigation to /admin with a member
\* who is not an admin: the run ended, with the redirect to the unauthorized
\* target and nothing else.
C30_Witness ==
    \E r \in RunIds :
        /\ Done(r)
        /\ runs[r].checked
        /\ runs[r].by = "user"
        /\ runs[r].to.path = <<"/admin">>
        /\ runs[r].me.present
        /\ OutcomesOf(runs[r]) = {"unauthorized"}

\* C31: the authenticated flag and the user record are written only by
\* checkAuthStatus.  Every step that changes either of them is the
\* completion of one pending call of checkAuthStatus, and writes what that
\* call got from the backend; all other steps of the guard and of the
\* composable's operations and role helpers leave both as they are.
C31_OnlyRevalidateWritesSession ==
    [][(isAuthenticatedState' # isAuthenticatedState \/ currentUser' # currentUser)
          => /\ Len(pending') = Len(pending) - 1
             /\ lastCall'.caller \in {pending[i].caller : i \in DOMAIN pending}
             /\ currentUser' = lastCall'.me
             /\ isAuthenticatedState' = lastCall'.me.present]_vars

\* enableTwoFactor's request succeeded and its own revalidation then failed:
\* the session is unauthenticated, as that call wrote it, while the token
\* cookies of the earlier login are still set.
C31_Witness ==
    \E o \in OpIds :
        /\ ops[o].kind = "enableTwoFactor"
        /\ ops[o].pc = "done"
        /\ ~ops[o].threw
        /\ lastCall.caller = "enableTwoFactor"
        /\ ~isAuthenticatedState
        /\ authCookies = CookiesSet

\* C32: for every uid at most one subscription returned by client.subscribe
\* is open at any time, the registry maps the uid to the handler of that
\* subscription, and a subscribe for a registered uid returns the registered
\* handler without calling client.subscribe.
C32_OneSubscriptionPerUid ==
    /\ [](\A uid \in Uids :
            /\ Cardinality({l \in listening : l.uid = uid}) <= 1
            /\ \A l \in listening : l.uid = uid => subscriptions[uid].sub = l.sub)
    /\ [][\A c \in CompIds, uid \in Uids :
            (/\ subscriptions[uid] # NoHandler
             /\ subscribing[c].pc = "idle"
             /\ subscribing'[c].pc # "idle"
             /\ subscribing'[c].uid = uid)
               => /\ subscribing'[c].pc = "returned"
                  /\ subscribing'[c].got = subscriptions[uid].sub
                  /\ opened' = opened /\ listening' = listening]_vars

\* C33: following the guard's redirects settles.  With the session
\* unchanged, every navigation under way reaches, through the redirects the
\* router follows, a guard run that allows.
C33_RedirectsSettle ==
    \A r \in RunIds : (runs[r].pc # "idle") ~> (Done(r) /\ runs[r].outcome = Allow)

\* C34: when a call inside the try block raises, the run ends in the catch
\* block: it returns the redirect to loginPath, whatever
\* navigateUnauthenticatedTo the page declares, the cookie then holds the
\* requested full path (the target is never a login or register page here,
\* those return before the try block), and the run has an outcome like any
\* other: nothing is thrown to the router.
C34_ErrorPathRedirectsToLogin ==
    \A r \in RunIds :
        (Done(r) /\ runs[r].raised)
        => /\ runs[r].checked
           /\ runs[r].outcome = Redirect(loginPath)
           /\ ~(HasPrefix(runs[r].to.path, loginPath) \/ HasPrefix(runs[r].to.path, registerPath))
           /\ runs[r].post.cookie = runs[r].to.fullPath

\* A signed-in user's navigation to /members, which declares
\* navigateUnauthenticatedTo /welcome, raised inside the try block while the
\* cookie held /dashboard: redirect to the login page, cookie overwritten.
C34_Witness ==
    \E r \in RunIds :
        /\ Done(r)
        /\ runs[r].raised
        /\ runs[r].post.authenticated
        /\ runs[r].to.path = <<"/members">>
        /\ runs[r].to.meta.navigateUnauthenticatedTo = <<"/welcome">>
        /\ runs[r].pre.cookie = <<"/dashboard">>
        /\ runs[r].outcome = Redirect(loginPath)
        /\ redirectCookie = <<"/members">>

\* What the composable's helpers say of the page's lists for the user of run
\* r: roles is absent or empty or hasAnyRole(roles), and excludeRoles is
\* absent or empty or isNotRole(excludeRoles).
HelpersAdmit(r) ==
    /\ \/ Len(runs[r].to.meta.roles.list) = 0
       \/ hasAnyRole(runs[r].post.user, config.permissions, runs[r].to.meta.roles.list)
    /\ \/ Len(runs[r].to.meta.excludeRoles.list) = 0
       \/ isNotRole(runs[r].post.user, config.permissions, runs[r].to.meta.excludeRoles.list)

\* The guard's inline roles equal the composable's userRoles, and the guard
\* allows exactly when the helpers admit.
GuardAgreesWithComposable(r) ==
    /\ RoleSet(r) = userRoles(runs[r].post.user, config.permissions)
    /\ (runs[r].to.meta.roles.declared \/ runs[r].to.meta.excludeRoles.declared)
          => (runs[r].outcome = Allow <=> HelpersAdmit(r))

\* C35 as stated: with permissions enabled, for every authenticated user the
\* roles the guard computes equal userRoles, and on every page that declares
\* roles or excludeRoles the guard allows the user exactly when
\* (roles absent or empty, or hasAnyRole(roles)) and (excludeRoles absent or
\* empty, or isNotRole(excludeRoles)).
C35_GuardAgreesEveryRoute ==
    \A r \in RunIds : AuthenticatedWithRoles(r) => GuardAgreesWithComposable(r)

\* C35 as amended: the same on every page that is not exempt and not
\* unauthenticatedOnly.
C35_GuardAgrees ==
    \A r \in RunIds :
        (AuthenticatedWithRoles(r) /\ ~Exempt(r) /\ ~DeclaredUnauthenticatedOnly(r))
        => GuardAgreesWithComposable(r)

\* Under the mapping x -> editor a user with roles x and banned asked for
\* /admin: both computations give <<editor, banned>>, hasAnyRole admits and
\* the guard allows.
C35_Witness ==
    \E r \in RunIds :
        /\ AuthenticatedWithRoles(r)
        /\ runs[r].to.path = <<"/admin">>
        /\ runs[r].post.user.role = Arr(<<"x", "banned">>)
        /\ RoleSet(r) = <<"editor", "banned">>
        /\ userRoles(runs[r].post.user, config.permissions) = <<"editor", "banned">>
        /\ runs[r].outcome = Allow

\* The three ways a finished run may have changed the cookie: it denied an
\* unauthenticated request and wrote its target; it used the stored path on an
\* unauthenticatedOnly page reached from the login or register page and
\* cleared the cookie; it ended in the catch block and wrote its target.
WroteOnDenial(run) ==
    /\ ~run.raised /\ ~run.post.authenticated
    /\ run.outcome.kind = "redirect"
    /\ run.post.cookie = run.to.fullPath

ClearedOnArrival(run) ==
    /\ ~run.raised /\ run.post.authenticated
    /\ run.to.meta.auth = "object" /\ run.to.meta.unauthenticatedOnly
    /\ HasPrefix(run.from, loginPath) \/ HasPrefix(run.from, registerPath)
    /\ run.outcome = Redirect(run.pre.cookie)
    /\ run.post.cookie = <<>>

WroteOnError(run) == run.raised /\ run.post.cookie = run.to.fullPath

\* C36: a step of a guard run changes the redirect cookie only as the run's
\* last step and only in one of the three ways above; a run that ends in
\* Allow, and a run that sends an authenticated user to the unauthorized
\* target, leave the cookie as it was.
C36_GuardWritesCookieInThreeCases ==
    /\ [][\A r \in RunIds :
            (runs'[r] # runs[r] /\ redirectCookie' # redirectCookie)
               => /\ runs[r].pc = "resolved" /\ runs'[r].pc = "done"
                  /\ runs'[r].pre.cookie = redirectCookie
                  /\ runs'[r].post.cookie = redirectCookie'
                  /\ \/ WroteOnDenial(runs'[r])
                     \/ ClearedOnArrival(runs'[r])
                     \/ WroteOnError(runs'[r])]_vars
    /\ [](\A r \in RunIds :
            Done(r) =>
               /\ runs[r].outcome = Allow => runs[r].post.cookie = runs[r].pre.cookie
               /\ (/\ ~runs[r].raised /\ runs[r].post.authenticated
                    /\ ~DeclaredUnauthenticatedOnly(r)
                    /\ runs[r].outcome.kind = "redirect")
                     => /\ runs[r].outcome = Redirect(UnauthorizedTarget(r))
                        /\ runs[r].post.cookie = runs[r].pre.cookie)

\* A user who has just signed in leaves the login page for the guest-only
\* /welcome while the cookie holds /members: sent to /members, cookie cleared.
C36_Witness ==
    \E r \in RunIds :
        /\ Done(r)
        /\ runs[r].by = "user"
        /\ runs[r].to.path = <<"/welcome">>
        /\ runs[r].from = loginPath
        /\ runs[r].post.authenticated
        /\ runs[r].pre.cookie = <<"/members">>
        /\ runs[r].outcome = Redirect(<<"/members">>)
        /\ runs[r].post.cookie = <<>>

\* C37: when the backend rejects login()'s authenticate call, that step sets
\* error, ends the call by rethrowing with isLoading false, and changes
\* neither the redirect cookie nor the session nor the calls of
\* checkAuthStatus in flight nor any navigation; a login that failed has
\* asked for no navigation and has read no redirect path.
C37_FailedLoginOnlySetsError ==
    /\ [][\A o \in OpIds :
            (ops[o].kind = "login" /\ ops[o].pc = "calling" /\ ops'[o].error)
               => /\ ops'[o] = [ops[o] EXCEPT !.pc = "done", !.threw = TRUE, !.error = TRUE]
                  /\ ~isLoading'
                  /\ redirectCookie' = redirectCookie
                  /\ isAuthenticatedState' = isAuthenticatedState
                  /\ currentUser' = currentUser
                  /\ pending' = pending /\ lastCall' = lastCall
                  /\ runs' = runs]_vars
    /\ [](\A o \in OpIds :
            (ops[o].kind = "login" /\ ops[o].error)
               => /\ ops[o].pc = "done" /\ ops[o].threw
                  /\ ops[o].navigatedTo = <<>>
                  /\ ops[o].run = 0)

\* login() has failed while the redirect cookie holds a path: the call
\* threw with error set, isLoading is false and the cookie is still there.
C37_Witness ==
    \E o \in OpIds :
        /\ ops[o].kind = "login" /\ ops[o].pc = "done"
        /\ ops[o].threw /\ ops[o].error
        /\ ops[o].navigatedTo = <<>>
        /\ ~isLoading
        /\ redirectCookie # <<>>

\* An operation of the composable that has been called and has not yet
\* returned or thrown; the plugin's own call of checkAuthStatus is not one.
OpInFlight(o) ==
    /\ ops[o].kind \notin {"none", "plugin"}
    /\ ops[o].pc \in {"calling", "awaiting", "resolved", "navigating", "routing"}

\* C38: isLoading is true exactly while at least one operation of the
\* instance is in flight, also when two of them overlap.
C38_LoadingWhileInFlight == isLoading <=> \E o \in OpIds : OpInFlight(o)

\* The uids registered with persistent = true.
PersistentUids == {uid \in Uids : subscriptions[uid] # NoHandler /\ subscriptions[uid].persistent}

\* This step takes a persistent subscription out of the registry.
RemovesPersistent(uid) == uid \in PersistentUids /\ subscriptions'[uid] = NoHandler

\* C39: unsubscribeAll, unsubscribeCollection and a component's unmount
\* never remove a persistent subscription; after an unsubscribeAll in which
\* no handler raised, the registry holds exactly the persistent
\* subscriptions; only unsubscribe(uid) removes a persistent subscription.
C39_PersistentSurviveCleanup ==
    /\ [][\A c \in CompIds, failing \in SUBSET Uids :
            (\/ Unmount(c, failing)
             \/ unsubscribeAll(c, failing)
             \/ \E collection \in Collections : unsubscribeCollection(c, collection, failing))
               => \A uid \in Uids : ~RemovesPersistent(uid)]_vars
    /\ [][\A c \in CompIds :
            unsubscribeAll(c, {})
               => {uid \in Uids : subscriptions'[uid] # NoHandler} = PersistentUids]_vars
    /\ [][\A uid \in Uids :
            RemovesPersistent(uid) => \E c \in CompIds : unsubscribe(c, uid, FALSE)]_vars

\* The registered subscription under uid belongs to component c alone: c's
\* call created it, it is not persistent, and no other component was handed
\* it by subscribing to the uid.
OwnedBy(c, uid) ==
    /\ subscriptions[uid] # NoHandler
    /\ subscriptions[uid].by = c
    /\ ~subscriptions[uid].persistent
    /\ subscriptions[uid].holders = {c}

\* C40: the unmount of a component removes only non-persistent subscriptions
\* that this component created, and none that another component holds,
\* whether re-created under the same uid or obtained by subscribing to a uid
\* already registered.
C40_UnmountRemovesOwnOnly ==
    [][\A c \in CompIds, failing \in SUBSET Uids :
          Unmount(c, failing)
             => \A uid \in Uids :
                   (subscriptions[uid] # NoHandler /\ subscriptions'[uid] = NoHandler)
                      => OwnedBy(c, uid)]_vars

====
